---- MODULE Spec2Model ----
(***************************************************************************)
(* Contract IQ backend: the fallback-chained completion client            *)
(* (services/ai_service.py) and the request orchestrators that use it     *)
(* (routes/analysis.py, routes/chat.py), together with the decorator and  *)
(* exception-handler layers every request passes through.                 *)
(***************************************************************************)
EXTENDS Integers, Sequences, FiniteSets, TLC

VARIABLES
    openai_client,      \* AIService.openai_client: None or the primary client
    fallback_client,    \* AIService.fallback_client: None or the secondary client
    document_chunks,    \* store table document_chunks, per document, ordered by chunk_index
    document_summaries, \* store table document_summaries, in insertion order
    document_risk_analyses, \* store table document_risk_analyses, in insertion order
    last,               \* the last request handled: inputs consumed, effects, response
    call,               \* the last service-level call: its inputs and its result
    background_tasks,   \* the background tasks added and not yet finished, in order
    user_document_rows, \* store table user_documents: the ids of its rows
    model_loaded,       \* EmbeddingService._model_loaded
    requests,           \* RateLimiter.requests: per client, the admitted timestamps kept
    last_cleanup,       \* RateLimiter.last_cleanup
    cache,              \* SimpleCache.cache: per key, value and expires_at
    now,                \* time.time()
    history,            \* the calls made on the limiter and the cache, with their answers
    in_flight           \* the requests that await the completion provider, as received

\* The state of the utilities beside the request pipeline.
utilities == <<model_loaded, requests, last_cleanup, cache, now, history>>

vars == <<openai_client, fallback_client, document_chunks, document_summaries,
          document_risk_analyses, last, call, background_tasks, user_document_rows,
          utilities, in_flight>>

(***************************************************************************)
(* Bounds of the model.                                                    *)
(***************************************************************************)
MaxChunks == 2
MaxRows == 1
MaxSearchChunks == 11
MaxArtifactRows == 2
MaxIngestChunks == 101
MaxStoredBefore == 1
MaxTexts == 2
Limit == 2
Window == 2
MaxEarly == 3
MaxCalls == 5
MaxCacheCalls == 3
ShortTtl == 1
MaxInFlight == 1
MaxFailedUpdates == 2
MaxConcurrent == 2

(***************************************************************************)
(* Values.                                                                 *)
(***************************************************************************)
None == "None"
PrimaryClient == "primary"
SecondaryClient == "secondary"
Clients == {PrimaryClient, SecondaryClient}

Docs == {"d1", "d2"}
CurrentUser == "u1"
\* user_documents: d1 is a document of the authenticated user, d2 is not.
user_documents == [d \in Docs |-> IF d = "d1" THEN "u1" ELSE "u2"]

\* The canned texts, as the distinct strings the source holds.
FallbackChat == "canned_chat"
FallbackSummary == "canned_summary"
FallbackRiskService == "canned_risk_html_service"
FallbackGeneric == "canned_generic"
FallbackRiskEndpoint == "canned_risk_html_endpoint"
FallbackQuery == "canned_query_apology"
NoContentAnswer == "No content found in the document."

\* AIService._get_fallback_response: the table of canned responses.
_get_fallback_response(operation) ==
    CASE operation = "chat" -> FallbackChat
      [] operation = "summary" -> FallbackSummary
      [] operation = "risk_analysis" -> FallbackRiskService
      [] OTHER -> FallbackGeneric

(***************************************************************************)
(* The LLM provider.  What one call of chat.completions.create does: it    *)
(* returns a completion (with or without choices, content and reasoning)   *)
(* or raises AuthenticationError, RateLimitError or another error.         *)
(***************************************************************************)
Completion(choices, content, hasReasoning, reasoning) ==
    [kind |-> "completion", choices |-> choices, content |-> content,
     hasReasoning |-> hasReasoning, reasoning |-> reasoning]

ProviderError(kind) ==
    [kind |-> kind, choices |-> 0, content |-> "", hasReasoning |-> FALSE, reasoning |-> ""]

NotCalled == ProviderError("not_called")

ProviderResponses ==
    { Completion(1, "llm_content", FALSE, ""),
      Completion(1, "", TRUE, "llm_reasoning"),
      Completion(1, "", TRUE, ""),
      Completion(1, "", FALSE, ""),
      Completion(0, "", FALSE, ""),
      ProviderError("AuthenticationError"),
      ProviderError("RateLimitError"),
      ProviderError("APIConnectionError") }

AuthOrRateLimit(resp) == resp.kind \in {"AuthenticationError", "RateLimitError"}

(***************************************************************************)
(* Completion requests.  A request is the messages, the model, the token   *)
(* budget and the temperature (printed as the source writes it).           *)
(***************************************************************************)
Request(system, context, query, model, max_tokens, temperature) ==
    [messages |-> [system |-> system, context |-> context, query |-> query],
     model |-> model, max_tokens |-> max_tokens, temperature |-> temperature]

NemotronModel == "nvidia/nemotron-nano-9b-v2:free"

\* The outcome of one chat_completion invocation, with the provider calls it made.
Call(client, request, response) ==
    [client |-> client, request |-> request, response |-> response]

Returned(value, calls, self) ==
    [outcome |-> "return", value |-> value, error |-> "", calls |-> calls, self |-> self]

Raised(error, calls, self) ==
    [outcome |-> "raise", value |-> "", error |-> error, calls |-> calls, self |-> self]

\* The coroutine is suspended at the await of its last call (lines 76 and
\* 112): the provider has not answered yet.
Awaited(calls, self) ==
    [outcome |-> "await", value |-> "", error |-> "", calls |-> calls, self |-> self]

\* The provider's response to the k-th create() call of an invocation.
ResponseTo(resps, k) == IF k <= Len(resps) THEN resps[k] ELSE NotCalled

(***************************************************************************)
(* AIService.chat_completion, in the order of the source.                  *)
(***************************************************************************)
\* A faulty selection: the fallback client is never the first client.
SelectPrimaryOnly(self) ==
    self.openai_client

\* Lines 66-70: the primary client when there is one, else the fallback client.
SelectClient(self) ==
    IF self.openai_client # None THEN self.openai_client ELSE self.fallback_client

\* Lines 86-105: the text of a completion of the first attempt; "" stands
\* for the raise of "Empty response" / "No choices".
FirstAttemptContent(resp) ==
    IF resp.choices > 0
    THEN IF resp.content = "" /\ resp.hasReasoning /\ resp.reasoning # ""
         THEN resp.reasoning
         ELSE resp.content
    ELSE ""

\* Lines 119-126: the text of a completion of the fallback attempt.
FallbackAttemptContent(resp) ==
    IF resp.choices > 0
    THEN IF resp.content = "" /\ resp.hasReasoning
         THEN resp.reasoning
         ELSE resp.content
    ELSE ""

\* Lines 86-105 and 135-136: a completion received on the first attempt.
FirstAttemptResult(resp, calls, self) ==
    IF FirstAttemptContent(resp) # ""
    THEN Returned(FirstAttemptContent(resp), calls, self)
    ELSE IF resp.choices > 0
         THEN Raised("Chat completion failed: Empty response from AI model", calls, self)
         ELSE Raised("Chat completion failed: No choices in completion response", calls, self)

\* A faulty test: the fallback client is tried even when it made the first attempt.
AlwaysTriesFallback(self, client) ==
    self.fallback_client # None

\* Line 109: whether the except clause tries the fallback client.
TriesFallback(self, client) ==
    self.fallback_client # None /\ client # self.fallback_client

\* A faulty outcome: the text of a completion is returned as it is.
FallbackAttemptResultUnchecked(resp, calls, self) ==
    IF resp = NotCalled THEN Awaited(calls, self)
    ELSE IF resp.kind = "completion"
    THEN Returned(FallbackAttemptContent(resp), calls, self)
    ELSE Returned(_get_fallback_response("chat"), calls, self)

\* Lines 119-131: the outcome of the call with the fallback client; every
\* failure of it, the empty response included, ends in the canned "chat" text.
FallbackAttemptResult(resp, calls, self) ==
    IF resp = NotCalled THEN Awaited(calls, self)
    ELSE IF resp.kind = "completion" /\ FallbackAttemptContent(resp) # ""
    THEN Returned(FallbackAttemptContent(resp), calls, self)
    ELSE Returned(_get_fallback_response("chat"), calls, self)

\* A faulty retry: the fallback client is called with the default token budget.
FallbackAttemptOtherRequest(self, request, resps, calls) ==
    FallbackAttemptResult(
        ResponseTo(resps, 2),
        Append(calls, Call(self.fallback_client, [request EXCEPT !.max_tokens = 500],
                           ResponseTo(resps, 2))),
        self)

\* Lines 111-117: the call with the fallback client, with the same request.
FallbackAttempt(self, request, resps, calls) ==
    FallbackAttemptResult(
        ResponseTo(resps, 2),
        Append(calls, Call(self.fallback_client, request, ResponseTo(resps, 2))),
        self)

\* A faulty handler: with no other client to try, the error is raised.
RaisingAuthOrRateLimitHandler(self, client, request, resps, calls) ==
    IF self.fallback_client # None /\ client # self.fallback_client
    THEN FallbackAttempt(self, request, resps, calls)
    ELSE Raised("Chat completion failed: provider error", calls, self)

\* Lines 107-134: AuthenticationError or RateLimitError on the first attempt.
AuthOrRateLimitHandler(self, client, request, resps, calls) ==
    IF TriesFallback(self, client)
    THEN FallbackAttempt(self, request, resps, calls)
    ELSE Returned(_get_fallback_response("chat"), calls, self)

\* Lines 74-136: the outcome of the first attempt and its except clauses.
FirstAttemptOutcome(self, client, request, resps, resp, calls) ==
    IF resp = NotCalled THEN Awaited(calls, self)
    ELSE IF resp.kind = "completion"
    THEN FirstAttemptResult(resp, calls, self)
    ELSE IF AuthOrRateLimit(resp)
         THEN AuthOrRateLimitHandler(self, client, request, resps, calls)
         ELSE Raised("Chat completion failed: provider error", calls, self)

\* Lines 76-81: the call with the selected client.
FirstAttempt(self, client, request, resps) ==
    FirstAttemptOutcome(self, client, request, resps, ResponseTo(resps, 1),
                        <<Call(client, request, ResponseTo(resps, 1))>>)

chat_completion(self, request, resps) ==
    IF SelectClient(self) = None
    THEN Raised("OpenAI client not initialized", <<>>, self)
    ELSE FirstAttempt(self, SelectClient(self), request, resps)

\* generate_summary, generate_risk_analysis, generate_document_query_response:
\* the request each builds; an AIServiceError of chat_completion is re-raised.
NoContext == [sep |-> "", parts |-> <<>>]

SummaryRequest(context) ==
    Request("summary_prompt", context, "", NemotronModel, 1000, "0.1")

RiskRequest(context) ==
    Request("risk_prompt", context, "", NemotronModel, 2000, "0.1")

QueryRequest(context, query, use_rag) ==
    Request(IF use_rag THEN "rag_prompt" ELSE "direct_prompt", context, query,
            NemotronModel, 800, "0.1")

ChatRequest(messages) ==
    Request("chat_prompt", NoContext, messages, NemotronModel, 800, "0.7")

generate_summary(self, context, resps) ==
    chat_completion(self, SummaryRequest(context), resps)

generate_risk_analysis(self, context, resps) ==
    chat_completion(self, RiskRequest(context), resps)

generate_document_query_response(self, context, query, use_rag, resps) ==
    chat_completion(self, QueryRequest(context, query, use_rag), resps)

\* An invocation as the request log keeps it: who called, and what came of it.
Invocation(useCase, request, result) ==
    [useCase |-> useCase, request |-> request, outcome |-> result.outcome,
     value |-> result.value, error |-> result.error, calls |-> result.calls,
     self |-> result.self]

RECURSIVE CallResponses(_)
\* The provider responses of all calls of the invocations, in order.
CallResponses(invs) ==
    IF invs = <<>> THEN <<>>
    ELSE [k \in 1..Len(Head(invs).calls) |-> Head(invs).calls[k].response]
         \o CallResponses(Tail(invs))

(***************************************************************************)
(* The store (Supabase tables), as the data-access layer uses it.          *)
(***************************************************************************)
\* A text is the sequence of the code points of its characters.  The text of
\* the i-th chunk of a document with content: "c0", "c1", "c2", "c3", else "cN".
ChunkTexts == <<<<99, 48>>, <<99, 49>>, <<99, 50>>, <<99, 51>>>>
ChunkText(i) == IF i < Len(ChunkTexts) THEN ChunkTexts[i + 1] ELSE <<99, 78>>

\* Chunk texts made of whitespace only: a vertical tab; an Ogham space mark,
\* a no-break space and a space; a next-line character and a line separator.
WhitespaceTexts == <<<<11>>, <<5760, 160, 32>>, <<133, 8232>>>>
WhitespaceText(i) == WhitespaceTexts[(i % Len(WhitespaceTexts)) + 1]

ChunkRow(document_id, i, embedding) ==
    [document_id |-> document_id, chunk_index |-> i, chunk_text |-> ChunkText(i),
     embedding |-> embedding]

\* A chunk row whose text is whitespace only.
WhitespaceRow(document_id, i, embedding) ==
    [ChunkRow(document_id, i, embedding) EXCEPT !.chunk_text = WhitespaceText(i)]

Row(table, document_id, text) ==
    [table |-> table, document_id |-> document_id, text |-> text]

\* What a handler finds in the store at one point of its run.
Tables ==
    [document_chunks |-> document_chunks, user_document_rows |-> user_document_rows]

\* The store as the handler finds it after the provider calls made so far:
\* db[1] when the request arrives, db[k + 1] after the k-th provider call.
Late(db, e) ==
    db[IF Len(CallResponses(e.invocations)) + 1 < Len(db)
       THEN Len(CallResponses(e.invocations)) + 1 ELSE Len(db)]

\* SupabaseService.get_document_chunks: the document's rows, by chunk_index.
get_document_chunks(store, document_id) ==
    SortSeq(store.document_chunks[document_id], LAMBDA a, b : a.chunk_index < b.chunk_index)

\* "\n".join / "\n\n".join of the chunk texts.
Context(sep, chunks) ==
    [sep |-> sep, parts |-> [i \in 1..Len(chunks) |-> chunks[i].chunk_text]]

\* The characters str.strip() removes, by code point: those for which
\* str.isspace() holds.
Whitespace ==
    (9..13) \cup (28..32) \cup {133, 160, 5760} \cup (8192..8202)
        \cup {8232, 8233, 8239, 8287, 12288}

\* str.strip() of a text is empty: every character of it is whitespace.
StripsToEmpty(text) ==
    \A k \in 1..Len(text) : text[k] \in Whitespace

\* str.strip() of the joined context is empty: the separator is a line
\* feed, which is whitespace, so it is when every part strips to empty.
IsBlank(context) ==
    \A i \in 1..Len(context.parts) : StripsToEmpty(context.parts[i])

(***************************************************************************)
(* What a handler does: the outcome of its body, the completion            *)
(* invocations it made, the rows it inserted and the store / embedder      *)
(* operations it attempted, in order.                                      *)
(***************************************************************************)
Ok(content, source) ==
    [kind |-> "return", exc |-> "", status |-> 200, success |-> TRUE,
     content |-> content, source |-> source]

Exc(name) ==
    [kind |-> "raise", exc |-> name, status |-> 0, success |-> FALSE,
     content |-> "", source |-> ""]

HTTPException(status) ==
    [kind |-> "raise", exc |-> "HTTPException", status |-> status, success |-> FALSE,
     content |-> "", source |-> ""]

\* The handler is suspended at an await of the completion client: it has
\* neither returned nor raised.
Suspended ==
    [kind |-> "await", exc |-> "", status |-> 0, success |-> FALSE,
     content |-> "", source |-> ""]

Effect(body, invocations, inserted, steps) ==
    [body |-> body, invocations |-> invocations, inserted |-> inserted, steps |-> steps]

\* The environment of one request: the token, and whether the store and the
\* embedder answer.  rpc is the answer of the match_documents RPC;
\* chunk_reads holds, in the order they are made, whether each
\* get_document_chunks of the request answers (else it raises StorageError).
RpcOk(rows) == [ok |-> TRUE, rows |-> rows]
RpcError == [ok |-> FALSE, rows |-> <<>>]

Env(token_ok, doc_read_ok, chunk_reads, embed_ok, rpc, insert_ok) ==
    [token_ok |-> token_ok, doc_read_ok |-> doc_read_ok,
     chunk_reads |-> chunk_reads, embed_ok |-> embed_ok, rpc |-> rpc,
     insert_ok |-> insert_ok]

DefaultEnv == Env(TRUE, TRUE, <<>>, TRUE, RpcOk(<<>>), TRUE)

\* The number of get_document_chunks calls among the steps made.
Reads(steps) == Len(SelectSeq(steps, LAMBDA x : x = "get_document_chunks"))

\* supabase_service.py lines 75-79: whether the get_document_chunks made
\* after the given steps answers.
ChunkRead(env, steps) ==
    Reads(steps) + 1 > Len(env.chunk_reads) \/ env.chunk_reads[Reads(steps) + 1]

(***************************************************************************)
(* routes/analysis.py: summarize_endpoint.                                 *)
(***************************************************************************)
\* A faulty insert: the summary is inserted twice.
SummarizeInsertTwice(inv, document_id, env, steps) ==
    IF inv.outcome = "await" THEN Effect(Suspended, <<inv>>, <<>>, steps)
    ELSE IF inv.outcome = "raise"
    THEN Effect(Exc("AIServiceError"), <<inv>>, <<>>, steps)
    ELSE Effect(Ok(inv.value, ""), <<inv>>,
                <<Row("document_summaries", document_id, inv.value),
                  Row("document_summaries", document_id, inv.value)>>,
                Append(steps, "insert_document_summary"))

\* Lines 56-65: the summary is inserted and returned; an AIServiceError of
\* generate_summary leaves the try block.
SummarizeInsert(inv, document_id, env, steps) ==
    IF inv.outcome = "await" THEN Effect(Suspended, <<inv>>, <<>>, steps)
    ELSE IF inv.outcome = "raise"
    THEN Effect(Exc("AIServiceError"), <<inv>>, <<>>, steps)
    ELSE IF ~env.insert_ok
    THEN Effect(Exc("StorageError"), <<inv>>, <<>>, Append(steps, "insert_document_summary"))
    ELSE Effect(Ok(inv.value, ""), <<inv>>,
                <<Row("document_summaries", document_id, inv.value)>>,
                Append(steps, "insert_document_summary"))

\* Lines 39-65: the try block.
SummarizeTry(self, db, document_id, env, resps) ==
    IF ~ChunkRead(env, <<>>)
    THEN Effect(Exc("StorageError"), <<>>, <<>>, <<"get_document_chunks">>)
    ELSE IF get_document_chunks(db[1], document_id) = <<>>
    THEN Effect(HTTPException(404), <<>>, <<>>, <<"get_document_chunks">>)
    ELSE SummarizeInsert(
             Invocation("summary",
                        SummaryRequest(Context("\n", get_document_chunks(db[1], document_id))),
                        generate_summary(self, Context("\n", get_document_chunks(db[1], document_id)),
                                         resps)),
             document_id, env, <<"get_document_chunks">>)

\* Lines 67-98: except AIServiceError, the fallback summary is inserted and returned.
SummarizeFallback(e, document_id, env) ==
    IF ~env.insert_ok
    THEN Effect(Exc("StorageError"), e.invocations, <<>>,
                Append(e.steps, "insert_document_summary"))
    ELSE Effect(Ok(FallbackSummary, ""), e.invocations,
                <<Row("document_summaries", document_id, FallbackSummary)>>,
                Append(e.steps, "insert_document_summary"))

\* Lines 99-101: except Exception, every other exception of the try block
\* (the HTTPException of line 48 included) becomes HTTPException(500).
CatchAll500(e) ==
    [e EXCEPT !.body = HTTPException(500)]

\* Lines 67-101: the except clauses of summarize_endpoint.
SummarizeExcept(e, document_id, env) ==
    IF e.body.kind # "raise" THEN e
    ELSE IF e.body.exc = "AIServiceError" THEN SummarizeFallback(e, document_id, env)
    ELSE CatchAll500(e)

summarize_endpoint(self, db, document_id, env, resps) ==
    SummarizeExcept(SummarizeTry(self, db, document_id, env, resps), document_id, env)

(***************************************************************************)
(* routes/analysis.py: risk_analysis_endpoint.                             *)
(***************************************************************************)
\* Lines 146-159: the analysis is inserted and returned.
RiskAnalysisInsert(inv, document_id, env, steps) ==
    IF inv.outcome = "await" THEN Effect(Suspended, <<inv>>, <<>>, steps)
    ELSE IF inv.outcome = "raise"
    THEN Effect(Exc("AIServiceError"), <<inv>>, <<>>, steps)
    ELSE IF ~env.insert_ok
    THEN Effect(Exc("StorageError"), <<inv>>, <<>>, Append(steps, "insert_risk_analysis"))
    ELSE Effect(Ok(inv.value, ""), <<inv>>,
                <<Row("document_risk_analyses", document_id, inv.value)>>,
                Append(steps, "insert_risk_analysis"))

\* Lines 122-159: the try block.
RiskAnalysisTry(self, db, document_id, env, resps) ==
    IF ~ChunkRead(env, <<>>)
    THEN Effect(Exc("StorageError"), <<>>, <<>>, <<"get_document_chunks">>)
    ELSE IF get_document_chunks(db[1], document_id) = <<>>
    THEN Effect(HTTPException(404), <<>>, <<>>, <<"get_document_chunks">>)
    ELSE IF IsBlank(Context("\n", get_document_chunks(db[1], document_id)))
    THEN Effect(HTTPException(400), <<>>, <<>>, <<"get_document_chunks">>)
    ELSE RiskAnalysisInsert(
             Invocation("risk_analysis",
                        RiskRequest(Context("\n", get_document_chunks(db[1], document_id))),
                        generate_risk_analysis(
                            self, Context("\n", get_document_chunks(db[1], document_id)), resps)),
             document_id, env, <<"get_document_chunks">>)

\* Lines 161-198: except AIServiceError, the fallback analysis is inserted and returned.
RiskAnalysisFallback(e, document_id, env) ==
    IF ~env.insert_ok
    THEN Effect(Exc("StorageError"), e.invocations, <<>>,
                Append(e.steps, "insert_risk_analysis"))
    ELSE Effect(Ok(FallbackRiskEndpoint, ""), e.invocations,
                <<Row("document_risk_analyses", document_id, FallbackRiskEndpoint)>>,
                Append(e.steps, "insert_risk_analysis"))

\* Lines 161-201: the except clauses of risk_analysis_endpoint.
RiskAnalysisExcept(e, document_id, env) ==
    IF e.body.kind # "raise" THEN e
    ELSE IF e.body.exc = "AIServiceError" THEN RiskAnalysisFallback(e, document_id, env)
    ELSE CatchAll500(e)

risk_analysis_endpoint(self, db, document_id, env, resps) ==
    RiskAnalysisExcept(RiskAnalysisTry(self, db, document_id, env, resps), document_id, env)

(***************************************************************************)
(* routes/chat.py: chat_endpoint.                                          *)
(***************************************************************************)
\* Lines 58-68: the try block.
ChatTry(inv) ==
    IF inv.outcome = "await" THEN Effect(Suspended, <<inv>>, <<>>, <<>>)
    ELSE IF inv.outcome = "raise"
    THEN Effect(Exc("AIServiceError"), <<inv>>, <<>>, <<>>)
    ELSE Effect(Ok(inv.value, ""), <<inv>>, <<>>, <<>>)

\* Lines 70-77: except AIServiceError, the canned chat text is returned.
ChatFallback(e) ==
    [e EXCEPT !.body = Ok(FallbackChat, "")]

\* Lines 70-80: the except clauses of chat_endpoint.
ChatExcept(e) ==
    IF e.body.kind # "raise" THEN e
    ELSE IF e.body.exc = "AIServiceError" THEN ChatFallback(e)
    ELSE CatchAll500(e)

chat_endpoint(self, messages, resps) ==
    ChatExcept(ChatTry(Invocation("chat", ChatRequest(messages),
                                  chat_completion(self, ChatRequest(messages), resps))))

(***************************************************************************)
(* routes/analysis.py: query_endpoint.                                     *)
(***************************************************************************)
\* The rows the match_documents RPC answered with, as chunk rows of the document.
RpcChunks(store, document_id, rows) ==
    [k \in 1..Len(rows) |-> get_document_chunks(store, document_id)[rows[k] + 1]]

\* SupabaseService.search_similar_chunks: match_count goes to the RPC; the
\* rows of the RPC are returned as they come, and a failing RPC is answered
\* with all chunks of the document.
match_count == 10

search_similar_chunks(store, document_id, rpc, chunks_read_ok) ==
    IF rpc.ok
    THEN [kind |-> "return", exc |-> "", rows |-> RpcChunks(store, document_id, rpc.rows)]
    ELSE IF chunks_read_ok
    THEN [kind |-> "return", exc |-> "", rows |-> get_document_chunks(store, document_id)]
    ELSE [kind |-> "raise", exc |-> "StorageError", rows |-> <<>>]

\* Lines 265-270 / 290-295 / 314-319: the success response built from the answer.
AnswerOf(inv, source, before, steps) ==
    IF inv.outcome = "await" THEN Effect(Suspended, Append(before, inv), <<>>, steps)
    ELSE IF inv.outcome = "raise"
    THEN Effect(Exc("AIServiceError"), Append(before, inv), <<>>, steps)
    ELSE Effect(Ok(inv.value, source), Append(before, inv), <<>>, steps)

\* Lines 261-263 / 286-288 / 310-312: the completion call on a context.
QueryAnswer(self, context, query, use_rag, source, resps, before, steps) ==
    AnswerOf(Invocation("query", QueryRequest(context, query, use_rag),
                        generate_document_query_response(self, context, query, use_rag,
                                                         resps)),
             source, before, steps)

\* A faulty context: a search that finds no row is answered without the
\* chunks of the document.
RagContextNoAllChunks(self, db, document_id, query, env, resps, similar_chunks, steps) ==
    IF similar_chunks = <<>>
    THEN Effect(Ok(NoContentAnswer, "rag"), <<>>, <<>>, steps)
    ELSE QueryAnswer(self, Context("\n\n", similar_chunks), query, TRUE, "rag", resps,
                     <<>>, steps)

\* Lines 245-263: the context of the RAG call once the search has answered:
\* the rows found, or all chunks of the document when none was found.
RagContext(self, db, document_id, query, env, resps, similar_chunks, steps) ==
    IF similar_chunks = <<>> /\ ~ChunkRead(env, steps)
    THEN Effect(Exc("StorageError"), <<>>, <<>>, Append(steps, "get_document_chunks"))
    ELSE IF similar_chunks = <<>> /\ get_document_chunks(db[1], document_id) = <<>>
    THEN Effect(Ok(NoContentAnswer, "rag"), <<>>, <<>>, Append(steps, "get_document_chunks"))
    ELSE QueryAnswer(self,
                     Context("\n\n", IF similar_chunks = <<>>
                                     THEN get_document_chunks(db[1], document_id)
                                     ELSE similar_chunks),
                     query, TRUE, "rag", resps, <<>>,
                     IF similar_chunks = <<>> THEN Append(steps, "get_document_chunks")
                     ELSE steps)

\* A faulty search: a failing RPC is raised as a storage error.
RagTryNoSearchFallback(self, db, document_id, query, env, resps, steps) ==
    IF ~env.embed_ok
    THEN Effect(Exc("EmbeddingServiceError"), <<>>, <<>>,
                Append(steps, "generate_query_embedding"))
    ELSE IF ~env.rpc.ok
    THEN Effect(Exc("StorageError"), <<>>, <<>>,
                steps \o <<"generate_query_embedding", "match_documents">>)
    ELSE RagContext(self, db, document_id, query, env, resps,
                    RpcChunks(db[1], document_id, env.rpc.rows),
                    steps \o <<"generate_query_embedding", "match_documents">>)

\* Lines 236-270, with SupabaseService.search_similar_chunks (lines 129-141):
\* a failing RPC is answered with all chunks of the document.
RagTry(self, db, document_id, query, env, resps, steps) ==
    IF ~env.embed_ok
    THEN Effect(Exc("EmbeddingServiceError"), <<>>, <<>>,
                Append(steps, "generate_query_embedding"))
    ELSE IF ~env.rpc.ok /\ ~ChunkRead(env, steps)
    THEN Effect(Exc("StorageError"), <<>>, <<>>,
                steps \o <<"generate_query_embedding", "match_documents",
                           "get_document_chunks">>)
    ELSE RagContext(self, db, document_id, query, env, resps,
                    IF env.rpc.ok THEN RpcChunks(db[1], document_id, env.rpc.rows)
                    ELSE get_document_chunks(db[1], document_id),
                    IF env.rpc.ok
                    THEN steps \o <<"generate_query_embedding", "match_documents">>
                    ELSE steps \o <<"generate_query_embedding", "match_documents",
                                    "get_document_chunks">>)

\* The responses of the stream that the invocations made so far have not consumed.
Unconsumed(resps, invocations) ==
    SubSeq(resps, Len(CallResponses(invocations)) + 1, Len(resps))

\* A faulty handler: the failure of the RAG branch is not retried.
RagExceptNoRetry(self, db, document_id, query, env, resps, e) ==
    e

\* Lines 272-295: except Exception in the RAG branch, the direct call over all chunks.
RagExcept(self, db, document_id, query, env, resps, e) ==
    IF e.body.kind # "raise" THEN e
    ELSE IF ~ChunkRead(env, e.steps)
    THEN Effect(Exc("StorageError"), e.invocations, <<>>,
                Append(e.steps, "get_document_chunks"))
    ELSE IF get_document_chunks(Late(db, e), document_id) = <<>>
    THEN Effect(Ok(NoContentAnswer, "error"), e.invocations, <<>>,
                Append(e.steps, "get_document_chunks"))
    ELSE QueryAnswer(self, Context("\n\n", get_document_chunks(Late(db, e), document_id)), query,
                     FALSE, "api", Unconsumed(resps, e.invocations), e.invocations,
                     Append(e.steps, "get_document_chunks"))

\* Lines 297-319: the direct branch.
QueryDirect(self, db, document_id, query, env, resps, steps) ==
    IF ~ChunkRead(env, steps)
    THEN Effect(Exc("StorageError"), <<>>, <<>>, Append(steps, "get_document_chunks"))
    ELSE IF get_document_chunks(db[1], document_id) = <<>>
    THEN Effect(Ok(NoContentAnswer, "api"), <<>>, <<>>, Append(steps, "get_document_chunks"))
    ELSE QueryAnswer(self, Context("\n\n", get_document_chunks(db[1], document_id)), query,
                     FALSE, "api", resps, <<>>, Append(steps, "get_document_chunks"))

\* Lines 225-232: the select on user_documents by id and user_id finds a row.
DocumentOfUser(store, document_id, user_id) ==
    /\ document_id \in store.user_document_rows
    /\ user_documents[document_id] = user_id

\* A faulty handler: the owner of the document is not checked.
QueryTryAnyDocument(self, db, document_id, query, use_rag, env, resps) ==
    IF ~env.doc_read_ok
    THEN Effect(Exc("Exception"), <<>>, <<>>, <<"user_documents.select">>)
    ELSE IF use_rag
    THEN RagExcept(self, db, document_id, query, env, resps,
                   RagTry(self, db, document_id, query, env, resps, <<"user_documents.select">>))
    ELSE QueryDirect(self, db, document_id, query, env, resps, <<"user_documents.select">>)

\* Lines 222-319: the try block.
QueryTry(self, db, document_id, query, use_rag, env, resps) ==
    IF ~env.doc_read_ok
    THEN Effect(Exc("Exception"), <<>>, <<>>, <<"user_documents.select">>)
    ELSE IF ~DocumentOfUser(db[1], document_id, CurrentUser)
    THEN Effect(HTTPException(403), <<>>, <<>>, <<"user_documents.select">>)
    ELSE IF use_rag
    THEN RagExcept(self, db, document_id, query, env, resps,
                   RagTry(self, db, document_id, query, env, resps, <<"user_documents.select">>))
    ELSE QueryDirect(self, db, document_id, query, env, resps, <<"user_documents.select">>)

\* A faulty handler: the AIServiceError is raised again.
QueryReraise(e) ==
    e

\* Lines 321-329: except AIServiceError, the apology is returned.
QueryFallback(e) ==
    [e EXCEPT !.body = Ok(FallbackQuery, "error")]

\* Lines 321-332: the except clauses of query_endpoint.
QueryExcept(e) ==
    IF e.body.kind # "raise" THEN e
    ELSE IF e.body.exc = "AIServiceError" THEN QueryFallback(e)
    ELSE CatchAll500(e)

query_endpoint(self, db, document_id, query, use_rag, env, resps) ==
    QueryExcept(QueryTry(self, db, document_id, query, use_rag, env, resps))

(***************************************************************************)
(* The layers around every endpoint: the get_token dependency, the         *)
(* decorators and the application's exception handlers.                    *)
(***************************************************************************)
\* utils/decorators.py handle_unicode_errors: only Unicode errors are converted.
handle_unicode_errors(body) ==
    IF body.kind = "raise" /\ body.exc = "UnicodeEncodeError" THEN HTTPException(500)
    ELSE IF body.kind = "raise" /\ body.exc = "UnicodeDecodeError" THEN HTTPException(400)
    ELSE body

\* utils/decorators.py require_auth: the endpoint runs inside the try block,
\* so every exception it raises that is not an AuthenticationError is
\* re-raised as AuthenticationError.
require_auth(body) ==
    IF body.kind = "raise" /\ body.exc # "AuthenticationError"
    THEN Exc("AuthenticationError")
    ELSE body

\* exceptions.py create_http_exception: the status of a ContractIQException.
create_http_exception(exc) ==
    CASE exc = "AuthenticationError" -> 401
      [] exc = "AuthorizationError" -> 403
      [] exc = "ValidationError" -> 400
      [] exc = "RateLimitError" -> 429
      [] OTHER -> 500

\* main.py custom_exception_handler and the framework's HTTPException handler.
HttpResponse(body) ==
    [status |-> IF body.kind = "return" THEN 200
                ELSE IF body.exc = "HTTPException" THEN body.status
                ELSE create_http_exception(body.exc),
     success |-> body.kind = "return" /\ body.success,
     content |-> IF body.kind = "return" THEN body.content ELSE "",
     source |-> IF body.kind = "return" THEN body.source ELSE ""]

\* routes/auth.py get_token: an invalid token ends the request with 401
\* before the endpoint runs.
Unauthorized == Effect(HTTPException(401), <<>>, <<>>, <<>>)

(***************************************************************************)
(* The state machine.  A handler runs without interruption until it awaits *)
(* the completion provider (client.chat.completions.create, the one await  *)
(* of these handlers that yields to the event loop); the request then      *)
(* waits in in_flight while other requests run, and goes on when the       *)
(* provider answers.  Deliver hands the response of a finished request to  *)
(* the client.                                                             *)
(***************************************************************************)
NoResponse == [status |-> 0, success |-> FALSE, content |-> "", source |-> ""]

NoRequest ==
    [endpoint |-> "none", document_id |-> "", use_rag |-> FALSE, env |-> DefaultEnv,
     body |-> Ok("", ""), invocations |-> <<>>, inserted |-> <<>>, steps |-> <<>>,
     db |-> <<>>, response |-> NoResponse]

NoCall == [op |-> "none"]

Self == [openai_client |-> openai_client, fallback_client |-> fallback_client]

InSeq(x, seq) == \E i \in 1..Len(seq) : seq[i] = x

\* A request being handled: its inputs, the provider responses it has
\* received and the store as it was when it arrived and at each response.
Received(endpoint, use_case, document_id, use_rag, env) ==
    [endpoint |-> endpoint, use_case |-> use_case, document_id |-> document_id,
     use_rag |-> use_rag, env |-> env, resps |-> <<>>, db |-> <<Tables>>]

\* The request a caller of the client makes for a use-case.
ClientRequest(useCase, context) ==
    CASE useCase = "summary" -> SummaryRequest(context)
      [] useCase = "risk_analysis" -> RiskRequest(context)
      [] useCase = "query" -> QueryRequest(context, "q", TRUE)
      [] OTHER -> ChatRequest("m")

\* A caller invokes the completion client: chat_completion itself or one of
\* generate_summary, generate_risk_analysis, generate_document_query_response.
ClientCall(self, useCase, context, resps) ==
    ChatTry(Invocation(
        useCase, ClientRequest(useCase, context),
        CASE useCase = "summary" -> generate_summary(self, context, resps)
          [] useCase = "risk_analysis" -> generate_risk_analysis(self, context, resps)
          [] useCase = "query" ->
                 generate_document_query_response(self, context, "q", TRUE, resps)
          [] OTHER -> chat_completion(self, ChatRequest("m"), resps)))

\* The run of the handler of a request on what it has read and received, up
\* to its end or to the await of a provider call beyond the responses received.
Run(r) ==
    IF ~r.env.token_ok THEN Unauthorized
    ELSE CASE r.endpoint = "summarize" ->
                  summarize_endpoint(Self, r.db, r.document_id, r.env, r.resps)
           [] r.endpoint = "risk-analysis" ->
                  risk_analysis_endpoint(Self, r.db, r.document_id, r.env, r.resps)
           [] r.endpoint = "query" ->
                  query_endpoint(Self, r.db, r.document_id, "q", r.use_rag, r.env, r.resps)
           [] r.endpoint = "chat" -> chat_endpoint(Self, "m", r.resps)
           [] OTHER ->
                  ClientCall(Self, r.use_case, Context("\n", <<ChunkRow("d1", 0, None)>>),
                             r.resps)

\* The handler is suspended at a provider call that has not been answered yet.
Starved(e) == e.body.kind = "await"

\* The outcomes drawn for a request are those of the operations its handler
\* has made: the outcome of an operation not made yet is not drawn.
CanonicalSoFar(env, e) ==
    /\ ~env.token_ok => env = [DefaultEnv EXCEPT !.token_ok = FALSE]
    /\ ~InSeq("user_documents.select", e.steps) => env.doc_read_ok
    /\ Len(env.chunk_reads) = Reads(e.steps)
    /\ ~InSeq("generate_query_embedding", e.steps) => env.embed_ok
    /\ ~InSeq("match_documents", e.steps) => env.rpc = DefaultEnv.rpc
    /\ ~(InSeq("insert_document_summary", e.steps) \/ InSeq("insert_risk_analysis", e.steps))
           => env.insert_ok

\* The same for a handler that has ended: the provider responses received
\* are the ones its calls consumed.
Canonical(env, e, resps) ==
    /\ CallResponses(e.invocations) = resps
    /\ CanonicalSoFar(env, e)

RowsOf(table, inserted) == SelectSeq(inserted, LAMBDA r : r.table = table)

\* The requests in flight without the i-th.
Others(i) ==
    [k \in 1..(Len(in_flight) - 1) |-> IF k < i THEN in_flight[k] ELSE in_flight[k + 1]]

\* Requests are received while the artifact tables hold fewer rows than the
\* given number.
Room(rows) ==
    Len(document_summaries) + Len(document_risk_analyses) < rows

\* The handler has returned or raised: its rows are inserted, the response
\* is made, the other requests stay in flight.
Commit(r, e, waiting) ==
    /\ document_summaries' = document_summaries \o RowsOf("document_summaries", e.inserted)
    /\ document_risk_analyses' =
           document_risk_analyses \o RowsOf("document_risk_analyses", e.inserted)
    /\ openai_client' = IF e.invocations = <<>> THEN openai_client
                        ELSE e.invocations[Len(e.invocations)].self.openai_client
    /\ fallback_client' = IF e.invocations = <<>> THEN fallback_client
                          ELSE e.invocations[Len(e.invocations)].self.fallback_client
    /\ last' = [endpoint |-> r.endpoint, document_id |-> r.document_id,
                use_rag |-> r.use_rag, env |-> r.env, body |-> e.body,
                invocations |-> e.invocations, inserted |-> e.inserted,
                steps |-> e.steps, db |-> r.db,
                response |-> HttpResponse(require_auth(handle_unicode_errors(e.body)))]
    /\ in_flight' = waiting
    /\ UNCHANGED <<document_chunks, call, background_tasks, user_document_rows, utilities>>

\* The request awaits the provider: nothing but in_flight changes.
Await(waiting) ==
    /\ in_flight' = waiting
    /\ UNCHANGED <<openai_client, fallback_client, document_chunks, document_summaries,
                   document_risk_analyses, last, call, background_tasks,
                   user_document_rows, utilities>>

\* The server takes up a request: the response of the last handler that
\* ended has been delivered and the artifact tables have room.
Open(rows) ==
    /\ last = NoRequest
    /\ Room(rows)

\* A request arrives and its handler runs to its end or to its first
\* provider call, where it joins the requests in flight (at most limit).
Receive(limit, r, e) ==
    /\ CanonicalSoFar(r.env, e)
    /\ IF Starved(e)
       THEN /\ Len(in_flight) < limit
            /\ Await(Append(in_flight, r))
       ELSE /\ Canonical(r.env, e, r.resps)
            /\ Commit(r, e, in_flight)

\* The provider answers the call the i-th request in flight awaits, and its
\* handler runs on to its end or to its next provider call.
Resume(i, r, e) ==
    /\ CanonicalSoFar(r.env, e)
    /\ IF Starved(e)
       THEN Await([in_flight EXCEPT ![i] = r])
       ELSE /\ Canonical(r.env, e, r.resps)
            /\ Commit(r, e, Others(i))

\* The outcomes of the store operations a suspended handler makes once the
\* provider has answered: the insert of the artifact, and in a RAG query
\* the read of the chunks in the except branch (analysis.py line 275),
\* whatever the reads made before did.
Resumed(r) ==
    {[r.env EXCEPT !.chunk_reads = reads, !.insert_ok = io] :
        reads \in IF r.endpoint = "query" /\ r.use_rag
                  THEN {r.env.chunk_reads} \cup
                       {Append(r.env.chunk_reads, ok) : ok \in BOOLEAN}
                  ELSE {r.env.chunk_reads},
        io \in IF r.endpoint \in {"summarize", "risk-analysis"} THEN BOOLEAN ELSE {TRUE}}

ProviderAnswers ==
    /\ last = NoRequest
    /\ \E i \in 1..Len(in_flight), resp \in ProviderResponses :
          \E env \in Resumed(in_flight[i]) :
              LET r == [in_flight[i] EXCEPT !.resps = Append(@, resp),
                                            !.db = Append(@, Tables), !.env = env]
              IN  Resume(i, r, Run(r))

\* The match_documents answers for a document with n chunks: an error, no
\* row, one row, or all rows from the last chunk to the first.
RpcAnswers(n) ==
    {RpcError, RpcOk(<<>>)}
        \cup {RpcOk(<<i>>) : i \in 0..(n - 1)}
        \cup {RpcOk([k \in 1..m |-> m - k]) : m \in {n} \ {0, 1}}

\* The answers of match_documents for a document as stored: a chunk whose
\* embedding is null has no similarity and is not among the rows.
EmbeddedAnswers(document_id) ==
    {rpc \in RpcAnswers(Len(document_chunks[document_id])) :
        \A k \in 1..Len(rpc.rows) :
            get_document_chunks(Tables, document_id)[rpc.rows[k] + 1].embedding # None}

InvalidToken == [DefaultEnv EXCEPT !.token_ok = FALSE]

SummarizeWithin(rows, limit, document_id) ==
    /\ Open(rows)
    /\ \E env \in {InvalidToken} \cup
                  {Env(TRUE, TRUE, <<cr>>, TRUE, DefaultEnv.rpc, io) :
                      cr \in BOOLEAN, io \in BOOLEAN} :
          LET r == Received("summarize", "", document_id, FALSE, env)
          IN  Receive(limit, r, Run(r))

Summarize(document_id) == SummarizeWithin(MaxRows, MaxConcurrent, document_id)

RiskAnalysisWithin(rows, limit, document_id) ==
    /\ Open(rows)
    /\ \E env \in {InvalidToken} \cup
                  {Env(TRUE, TRUE, <<cr>>, TRUE, DefaultEnv.rpc, io) :
                      cr \in BOOLEAN, io \in BOOLEAN} :
          LET r == Received("risk-analysis", "", document_id, FALSE, env)
          IN  Receive(limit, r, Run(r))

RiskAnalysis(document_id) == RiskAnalysisWithin(MaxRows, MaxConcurrent, document_id)

Chat ==
    /\ Open(MaxRows)
    /\ \E env \in {InvalidToken, DefaultEnv} :
          LET r == Received("chat", "", "", FALSE, env)
          IN  Receive(MaxConcurrent, r, Run(r))

RECURSIVE ChunkReads(_, _)
\* The outcomes of the chunk reads a request makes before its first provider
\* call, drawn as the handler comes to each read: one in direct mode (line
\* 299), up to three in RAG mode (the one of search_similar_chunks, line 247
\* and line 275).
ChunkReads(r, reads) ==
    IF Reads(Run([r EXCEPT !.env.chunk_reads = reads]).steps) <= Len(reads)
    THEN {reads}
    ELSE UNION {ChunkReads(r, Append(reads, ok)) : ok \in BOOLEAN}

\* The outcomes of the token check, of the read of user_documents, of the
\* query embedding and of match_documents; an outcome is drawn only for a
\* step that the outcomes before it let the handler reach.
QueryEnvs(use_rag, answers) ==
    {InvalidToken, Env(TRUE, FALSE, <<>>, TRUE, DefaultEnv.rpc, TRUE)} \cup
    {Env(TRUE, TRUE, <<>>, em, rpc, TRUE) :
        em \in IF use_rag THEN BOOLEAN ELSE {TRUE},
        rpc \in IF use_rag THEN answers ELSE {DefaultEnv.rpc}}

QueryWithin(rows, limit, document_id, use_rag, answers) ==
    /\ Open(rows)
    /\ \E env \in QueryEnvs(use_rag, answers) :
          /\ ~env.embed_ok => env.rpc = DefaultEnv.rpc
          /\ \E reads \in ChunkReads(Received("query", "", document_id, use_rag, env),
                                     <<>>) :
                LET r == Received("query", "", document_id, use_rag,
                                  [env EXCEPT !.chunk_reads = reads])
                IN  Receive(limit, r, Run(r))

Query(document_id, use_rag) ==
    QueryWithin(MaxRows, MaxConcurrent, document_id, use_rag,
                RpcAnswers(Len(document_chunks[document_id])))

Complete(useCase) ==
    /\ Open(MaxRows)
    /\ LET r == Received("client", useCase, "", FALSE, DefaultEnv)
       IN  Receive(MaxConcurrent, r, Run(r))

Deliver ==
    /\ last # NoRequest
    /\ last' = NoRequest
    /\ UNCHANGED <<in_flight, openai_client, fallback_client, document_chunks,
                   document_summaries, document_risk_analyses, call, background_tasks,
                   user_document_rows, utilities>>

\* The utilities after construction: no model loaded, no request admitted,
\* an empty cache.
InitUtilities ==
    /\ model_loaded = FALSE
    /\ requests = <<>>
    /\ last_cleanup = 0
    /\ cache = <<>>
    /\ now = 0
    /\ history = <<>>
    /\ in_flight = <<>>

\* The documents of the caller.  summarize_endpoint and risk_analysis_endpoint
\* never read user_documents, so the owner of the document makes no
\* difference to them: they are requested for these documents.
OwnDocs == {d \in Docs : user_documents[d] = CurrentUser}

\* After construction: the clients the configured keys give (_initialize_clients),
\* a store in which d1 has up to MaxChunks chunks with content, or one chunk
\* of whitespace only, and d2 has MaxChunks.
Init ==
    /\ openai_client \in {None, PrimaryClient}
    /\ fallback_client \in {None, SecondaryClient}
    /\ \E n \in 0..MaxChunks, blank \in BOOLEAN :
          /\ blank => n = 1
          /\ document_chunks =
                 [d \in Docs |->
                     [i \in 1..(IF d = "d1" THEN n ELSE MaxChunks) |->
                         IF d = "d1" /\ blank THEN WhitespaceRow(d, i - 1, "vector")
                         ELSE ChunkRow(d, i - 1, "vector")]]
    /\ document_summaries = <<>>
    /\ document_risk_analyses = <<>>
    /\ last = NoRequest
    /\ call = NoCall
    /\ background_tasks = <<>>
    /\ user_document_rows = Docs
    /\ InitUtilities

Next ==
    \/ \E d \in OwnDocs : Summarize(d)
    \/ \E d \in OwnDocs : RiskAnalysis(d)
    \/ Chat
    \/ \E d \in Docs, use_rag \in BOOLEAN : Query(d, use_rag)
    \/ ProviderAnswers
    \/ Deliver

Spec == Init /\ [][Next]_vars

NextClient ==
    \/ \E useCase \in {"chat", "summary", "risk_analysis", "query"} : Complete(useCase)
    \/ ProviderAnswers
    \/ Deliver

SpecClient == Init /\ [][NextClient]_vars

(***************************************************************************)
(* routes/documents.py: process_document and its endpoint.                 *)
(***************************************************************************)
\* A text: empty, whitespace only, or content that the splitter cuts into n
\* chunks (n > 0).
EmptyText == [kind |-> "empty", n |-> 0]
BlankText == [kind |-> "blank", n |-> 0]
ContentText(n) == [kind |-> "content", n |-> n]

\* RecursiveCharacterTextSplitter.split_text: the chunk texts, in order.
split_text(text) == [i \in 1..text.n |-> ChunkText(i - 1)]

\* Lines 251-259: the rows prepared for the chunks, chunk_index by enumerate.
ChunkData(document_id, chunks, embedding) ==
    [i \in 1..Len(chunks) |->
        [document_id |-> document_id, chunk_index |-> i - 1, chunk_text |-> chunks[i],
         embedding |-> embedding]]

batch_size == 50

\* What the loop of lines 273-281 has done so far.
NoBatches == [total_inserted |-> 0, failed_chunks |-> 0, rows |-> <<>>, batches |-> <<>>]

\* A faulty batch step: a raised insert is not counted.
InsertBatchUncounted(acc, batch, outcome) ==
    IF outcome = "inserted"
    THEN [total_inserted |-> acc.total_inserted + Len(batch),
          failed_chunks |-> acc.failed_chunks,
          rows |-> acc.rows \o batch,
          batches |-> Append(acc.batches, [size |-> Len(batch), outcome |-> outcome])]
    ELSE [acc EXCEPT !.batches = Append(@, [size |-> Len(batch), outcome |-> outcome])]

\* A faulty batch step: a raised batch is counted as inserted too.
InsertBatchCountedTwice(acc, batch, outcome) ==
    [total_inserted |-> acc.total_inserted + Len(batch),
     failed_chunks |-> IF outcome = "raised" THEN acc.failed_chunks + Len(batch)
                       ELSE acc.failed_chunks,
     rows |-> IF outcome = "inserted" THEN acc.rows \o batch ELSE acc.rows,
     batches |-> Append(acc.batches, [size |-> Len(batch), outcome |-> outcome])]

\* Lines 274-281: one batch.  The insert returns the rows inserted, returns
\* no data (nothing is counted), or raises (the batch is counted as failed).
InsertBatch(acc, batch, outcome) ==
    [total_inserted |-> IF outcome = "inserted" THEN acc.total_inserted + Len(batch)
                        ELSE acc.total_inserted,
     failed_chunks |-> IF outcome = "raised" THEN acc.failed_chunks + Len(batch)
                       ELSE acc.failed_chunks,
     rows |-> IF outcome = "inserted" THEN acc.rows \o batch ELSE acc.rows,
     batches |-> Append(acc.batches, [size |-> Len(batch), outcome |-> outcome])]

RECURSIVE InsertBatches(_, _, _, _)
\* Lines 273-281: for i in range(0, len(chunk_data), batch_size).
InsertBatches(chunk_data, i, outcomes, acc) ==
    IF i >= Len(chunk_data) THEN acc
    ELSE InsertBatches(
             chunk_data, i + batch_size, outcomes,
             InsertBatch(acc,
                         SubSeq(chunk_data, i + 1,
                                IF i + batch_size < Len(chunk_data) THEN i + batch_size
                                ELSE Len(chunk_data)),
                         outcomes[Len(acc.batches) + 1]))

\* Lines 295-303: the result of a failed call.
ProcessFailure(error, splitter_called, embedder_called) ==
    [success |-> FALSE, error |-> error, chunks_inserted |-> 0, total_chunks |-> 0,
     failed_chunks |-> 0, rows |-> <<>>, batches |-> <<>>,
     splitter_called |-> splitter_called, embedder_called |-> embedder_called]

\* Lines 283-293: the result of a call that reached the batch loop.
ProcessSuccess(total_chunks, done) ==
    [success |-> TRUE, error |-> "", chunks_inserted |-> done.total_inserted,
     total_chunks |-> total_chunks, failed_chunks |-> done.failed_chunks,
     rows |-> done.rows, batches |-> done.batches,
     splitter_called |-> TRUE, embedder_called |-> TRUE]

\* Line 253: zip(chunks, embeddings) ends with the shorter of the two.
Zip(chunks, vectors) ==
    SubSeq(chunks, 1, IF vectors < Len(chunks) THEN vectors ELSE Len(chunks))

\* Lines 206-303.  embed_ok: generate_embeddings returns (else it raises);
\* vectors: the number of vectors it returns; outcomes: what the insert of
\* each batch does.
process_document(text, user_id, document_id, embed_ok, vectors, outcomes) ==
    IF text.kind \in {"empty", "blank"}
    THEN ProcessFailure("Text content is required and cannot be empty", FALSE, FALSE)
    ELSE IF user_id = ""
    THEN ProcessFailure("User ID is required", FALSE, FALSE)
    ELSE IF document_id = ""
    THEN ProcessFailure("Document ID is required", FALSE, FALSE)
    ELSE IF split_text(text) = <<>>
    THEN ProcessFailure("No chunks created from text", TRUE, FALSE)
    ELSE IF ~embed_ok
    THEN ProcessFailure("Failed to generate embeddings", TRUE, TRUE)
    ELSE ProcessSuccess(
             Len(split_text(text)),
             InsertBatches(ChunkData(document_id, Zip(split_text(text), vectors),
                                     "vector"),
                           0, outcomes, NoBatches))

\* Lines 154-176: the endpoint; a failed result is raised as HTTPException(500)
\* inside the try block, whose except clause raises HTTPException(500).
process_document_endpoint(result) ==
    IF result.success THEN Ok("Document processed successfully", "")
    ELSE HTTPException(500)

\* utils/decorators.py async_timeout (lines 148-162): the TimeoutError of
\* wait_for is raised as HTTPException(504).
async_timeout(body, timed_out) ==
    IF timed_out THEN HTTPException(504) ELSE body

\* How the call stands to the deadline of 60 s.  process_document as written
\* never suspends (its splitter, embedder and store calls block the event
\* loop), so wait_for returns its outcome however long it took; only an
\* embedder that suspends can be cancelled by wait_for, while it is awaited.
InTime == "in_time"
BlockedPastDeadline == "blocked_past_deadline"
SuspendedPastDeadline == "suspended_past_deadline"
Waits == {InTime, BlockedPastDeadline, SuspendedPastDeadline}

\* Lines 249: the call was cancelled while it awaited the embedder.
ProcessCancelled == ProcessFailure("CancelledError", TRUE, TRUE)

\* The number of batches of the loop for n rows.
NBatches(n) == (n + batch_size - 1) \div batch_size

IngestSizes == {1, 2, batch_size, batch_size + 1, MaxIngestChunks}

\* The inputs of a call are the ones it consumed.
ProcessInputs(text, user_id, document_id, embed_ok, vectors, outcomes) ==
    /\ text.kind # "content" => user_id = CurrentUser /\ document_id # ""
    /\ user_id = "" => document_id # ""
    /\ (text.kind # "content" \/ user_id = "" \/ document_id = "") => embed_ok
    /\ outcomes # <<>> <=> (text.kind = "content" /\ user_id # "" /\ document_id # ""
                             /\ embed_ok /\ vectors > 0)
    /\ (text.kind # "content" \/ user_id = "" \/ document_id = "" \/ ~embed_ok)
           => vectors = text.n

\* A call of process_document and its endpoint.  The embedder may return
\* fewer vectors than chunks, but never none: an empty list is raised as
\* EmbeddingServiceError (embedding_service.py lines 134-138), which is the
\* outcome embed_ok = FALSE.
ProcessDocumentIn(waits, sizes, missing, document_id) ==
    \E text \in {EmptyText, BlankText} \cup {ContentText(n) : n \in sizes},
       user_id \in {"", CurrentUser},
       doc \in {"", document_id},
       embed_ok \in BOOLEAN,
       wait \in waits :
    \E vectors \in {text.n - m : m \in {k \in missing : k = 0 \/ k < text.n}} :
       \E outcomes \in {<<>>} \cup
               [1..NBatches(vectors) -> {"inserted", "no_data", "raised"}] :
          /\ IF wait = SuspendedPastDeadline
             THEN /\ text.kind = "content" /\ user_id # "" /\ doc # ""
                  /\ embed_ok /\ vectors = text.n /\ outcomes = <<>>
             ELSE ProcessInputs(text, user_id, doc, embed_ok, vectors, outcomes)
          /\ Len(document_chunks[document_id]) <= MaxStoredBefore
          /\ LET result == IF wait = SuspendedPastDeadline THEN ProcessCancelled
                           ELSE process_document(text, user_id, doc, embed_ok, vectors,
                                                 outcomes)
             IN  /\ document_chunks' =
                        [document_chunks EXCEPT ![document_id] = @ \o result.rows]
                 /\ call' = [op |-> "process_document", text |-> text,
                             user_id |-> user_id, document_id |-> doc,
                             embed_ok |-> embed_ok, vectors |-> vectors,
                             outcomes |-> outcomes, wait |-> wait, result |-> result,
                             response |-> HttpResponse(require_auth(handle_unicode_errors(
                                 async_timeout(process_document_endpoint(result),
                                               wait = SuspendedPastDeadline))))]
          /\ UNCHANGED <<in_flight, openai_client, fallback_client, document_summaries,
                         document_risk_analyses, last, background_tasks,
                         user_document_rows, utilities>>

\* The call ends within its deadline, the embedder returns one vector per chunk.
ProcessDocument(document_id) ==
    ProcessDocumentIn({InTime}, IngestSizes, {0}, document_id)

(***************************************************************************)
(* routes/documents.py: upload_document and generate_embeddings_background. *)
(***************************************************************************)
RECURSIVE InsertChunkBatches(_, _, _, _, _)
\* SupabaseService.insert_document_chunks: batches of 50 are inserted in
\* order; a raising insert ends the call with StorageError, the batches
\* inserted before it stay.  A batch whose response carries no data adds
\* nothing to the rows returned and is taken to have stored nothing.
InsertChunkBatches(chunks, i, outcomes, acc, steps) ==
    IF i >= Len(chunks) THEN [kind |-> "return", rows |-> acc, steps |-> steps]
    ELSE IF outcomes[(i \div batch_size) + 1] = "raised"
    THEN [kind |-> "raise", rows |-> acc,
          steps |-> Append(steps, "document_chunks.insert")]
    ELSE InsertChunkBatches(
             chunks, i + batch_size, outcomes,
             IF outcomes[(i \div batch_size) + 1] = "inserted"
             THEN acc \o SubSeq(chunks, i + 1,
                                IF i + batch_size < Len(chunks) THEN i + batch_size
                                ELSE Len(chunks))
             ELSE acc,
             Append(steps, "document_chunks.insert"))

insert_document_chunks(chunks, outcomes) ==
    InsertChunkBatches(chunks, 0, outcomes, <<>>, <<>>)

\* A background task as add_task records it, and where its run stands.
Task(document_id, n) ==
    [document_id |-> document_id, n |-> n, stage |-> "added", i |-> 0]

\* What upload_document did: its outcome, whether the user_documents row
\* was inserted, the chunk rows inserted, the background task added, and the
\* effects in the order they were made.
Uploaded(body, record, rows, tasks, steps) ==
    [body |-> body, record |-> record, rows |-> rows, tasks |-> tasks,
     steps |-> steps]

\* Lines 103-128: the chunk rows are inserted with a null embedding; when
\* insert_document_chunks returns, whatever it returns, the background task
\* is added and success is returned.
UploadChunks(document_id, text, inserted, steps) ==
    IF inserted.kind = "raise"
    THEN Uploaded(Exc("StorageError"), TRUE, inserted.rows, <<>>,
                  steps \o inserted.steps)
    ELSE Uploaded(Ok("Document uploaded and processed", ""), TRUE, inserted.rows,
                  <<Task(document_id, text.n)>>,
                  Append(Append(steps \o inserted.steps, "add_task"), "return"))

\* Lines 77-92: the text is extracted and checked, the document record is
\* inserted.  An insert into user_documents that returns no data (line 89)
\* is taken to have stored nothing.
UploadRecord(document_id, text, record_ok, outcomes, steps) ==
    IF text.kind # "content"
    THEN Uploaded(Exc("ValidationError"), FALSE, <<>>, <<>>,
                  Append(steps, "extract_text_from_file"))
    ELSE IF ~record_ok
    THEN Uploaded(Exc("DocumentProcessingError"), FALSE, <<>>, <<>>,
                  Append(Append(steps, "extract_text_from_file"), "user_documents.insert"))
    ELSE UploadChunks(document_id, text,
                      insert_document_chunks(
                          ChunkData(document_id, split_text(text), None), outcomes),
                      Append(Append(steps, "extract_text_from_file"),
                             "user_documents.insert"))

\* Lines 52-128: the try block.
UploadTry(document_id, text, client_ok, storage_ok, record_ok, outcomes) ==
    IF ~client_ok THEN Uploaded(HTTPException(503), FALSE, <<>>, <<>>, <<>>)
    ELSE IF ~storage_ok
    THEN Uploaded(Exc("StorageError"), FALSE, <<>>, <<>>, <<"upload_file_to_storage">>)
    ELSE UploadRecord(document_id, text, record_ok, outcomes,
                      <<"upload_file_to_storage">>)

\* Lines 130-132: except Exception raises HTTPException(500).
UploadExcept(u) ==
    IF u.body.kind = "return" THEN u ELSE [u EXCEPT !.body = HTTPException(500)]

upload_document(document_id, text, client_ok, storage_ok, record_ok, outcomes) ==
    UploadExcept(UploadTry(document_id, text, client_ok, storage_ok, record_ok, outcomes))

\* The inputs of an upload are the ones it consumed.
UploadInputs(text, client_ok, storage_ok, record_ok, outcomes) ==
    /\ ~client_ok => storage_ok
    /\ (~client_ok \/ ~storage_ok) => text.kind = "content" /\ text.n = 1
    /\ (~client_ok \/ ~storage_ok \/ text.kind # "content") => record_ok
    /\ outcomes # <<>> <=> (client_ok /\ storage_ok /\ text.kind = "content" /\ record_ok)

\* The document id is the one the insert into user_documents returns: a
\* document of the caller that has no row, no chunk row and no task yet.
FreshDocument(document_id) ==
    /\ user_documents[document_id] = CurrentUser
    /\ document_id \notin user_document_rows
    /\ document_chunks[document_id] = <<>>
    /\ \A k \in 1..Len(background_tasks) : background_tasks[k].document_id # document_id

\* An upload of a file with no text, or with a text of one of the sizes.
UploadOf(sizes, document_id) ==
    /\ FreshDocument(document_id)
    /\ \E text \in {BlankText} \cup {ContentText(n) : n \in sizes},
          client_ok \in BOOLEAN, storage_ok \in BOOLEAN, record_ok \in BOOLEAN :
          \E outcomes \in {<<>>} \cup
                  [1..NBatches(text.n) -> {"inserted", "no_data", "raised"}] :
             /\ UploadInputs(text, client_ok, storage_ok, record_ok, outcomes)
             /\ LET u == upload_document(document_id, text, client_ok, storage_ok,
                                         record_ok, outcomes)
                IN  /\ document_chunks' =
                           [document_chunks EXCEPT ![document_id] = @ \o u.rows]
                    /\ background_tasks' = background_tasks \o u.tasks
                    /\ user_document_rows' =
                           IF u.record THEN user_document_rows \cup {document_id}
                           ELSE user_document_rows
                    /\ call' = [op |-> "upload", document_id |-> document_id,
                                text |-> text, outcomes |-> outcomes,
                                steps |-> u.steps,
                                response |-> HttpResponse(require_auth(
                                    handle_unicode_errors(u.body)))]
    /\ UNCHANGED <<in_flight, openai_client, fallback_client, document_summaries,
                   document_risk_analyses, last, utilities>>

Upload(document_id) == UploadOf(1..MaxChunks, document_id)

\* Lines 325-327: update(embedding).eq(document_id).eq(chunk_index).
UpdateEmbedding(rows, i, embedding) ==
    [k \in 1..Len(rows) |->
        IF rows[k].chunk_index = i THEN [rows[k] EXCEPT !.embedding = embedding]
        ELSE rows[k]]

\* Lines 315-319 and 336-337: the task starts; when generate_embeddings
\* raises the task ends, with no chunk updated.
BackgroundEmbed ==
    /\ background_tasks # <<>>
    /\ Head(background_tasks).stage = "added"
    /\ \E embed_ok \in BOOLEAN :
          background_tasks' =
              IF embed_ok
              THEN <<[Head(background_tasks) EXCEPT !.stage = "updating"]>>
                       \o Tail(background_tasks)
              ELSE Tail(background_tasks)
    /\ UNCHANGED <<in_flight, openai_client, fallback_client, document_chunks, document_summaries,
                   document_risk_analyses, last, call, user_document_rows, utilities>>

\* The chunks before the one the task is at that it left without embedding.
LeftNull(task) ==
    Cardinality({k \in 1..Len(document_chunks[task.document_id]) :
                    /\ document_chunks[task.document_id][k].chunk_index < task.i
                    /\ document_chunks[task.document_id][k].embedding = None})

\* Lines 323-334: one turn of the loop; an update that raises is logged
\* and the loop goes on.  After the last chunk the task ends.  The updates
\* of one task that raise are at most the given number.
BackgroundUpdateWithin(failures) ==
    /\ background_tasks # <<>>
    /\ Head(background_tasks).stage = "updating"
    /\ LET task == Head(background_tasks)
       IN  /\ \E outcome \in {"updated"} \cup
                              (IF LeftNull(task) < failures THEN {"raised"} ELSE {}) :
                 document_chunks' =
                     IF outcome = "updated"
                     THEN [document_chunks EXCEPT ![task.document_id] =
                              UpdateEmbedding(@, task.i, "vector")]
                     ELSE document_chunks
           /\ background_tasks' =
                  IF task.i + 1 >= task.n THEN Tail(background_tasks)
                  ELSE <<[task EXCEPT !.i = @ + 1]>> \o Tail(background_tasks)
    /\ UNCHANGED <<in_flight, openai_client, fallback_client, document_summaries,
                   document_risk_analyses, last, call, user_document_rows, utilities>>

BackgroundUpdate == BackgroundUpdateWithin(MaxChunks)

\* Nothing uploaded yet.
InitIngest ==
    /\ openai_client = PrimaryClient
    /\ fallback_client = SecondaryClient
    /\ document_chunks = [d \in Docs |-> <<>>]
    /\ document_summaries = <<>>
    /\ document_risk_analyses = <<>>
    /\ last = NoRequest
    /\ call = NoCall
    /\ background_tasks = <<>>
    /\ user_document_rows = {}
    /\ InitUtilities

NextIngest ==
    \/ \E d \in Docs : Upload(d)
    \/ \E d \in OwnDocs : ProcessDocument(d)
    \/ BackgroundEmbed
    \/ BackgroundUpdate

SpecIngest == InitIngest /\ [][NextIngest]_vars

\* process-document requests alone, within and past their deadline, with an
\* embedder that may return one vector less than it was given chunks (of a
\* text of more than one chunk).
NextProcess ==
    \E d \in OwnDocs : ProcessDocumentIn(Waits, {1, batch_size + 1}, {0, 1}, d)

SpecProcess == InitIngest /\ [][NextProcess]_vars

\* Uploads, the background task and the RAG queries of the caller.
NextUpload ==
    \/ \E d \in Docs : Upload(d)
    \/ BackgroundEmbed
    \/ BackgroundUpdate
    \/ \E d \in OwnDocs : QueryWithin(MaxRows, MaxInFlight, d, TRUE, EmbeddedAnswers(d))
    \/ ProviderAnswers
    \/ Deliver

\* The framework runs an added background task to its end after the response
\* was sent: the steps of the task are taken when they are enabled.
SpecUpload ==
    /\ InitIngest
    /\ [][NextUpload]_vars
    /\ WF_vars(BackgroundEmbed)
    /\ WF_vars(BackgroundUpdate)

\* Uploads of texts of one chunk, of one full batch and a chunk, and their
\* background tasks.
NextUploadOrder ==
    \/ \E d \in Docs : UploadOf({1, batch_size + 1}, d)
    \/ BackgroundEmbed
    \/ BackgroundUpdateWithin(MaxFailedUpdates)

SpecUploadOrder ==
    /\ InitIngest
    /\ [][NextUploadOrder]_vars
    /\ WF_vars(BackgroundEmbed)
    /\ WF_vars(BackgroundUpdateWithin(MaxFailedUpdates))

(***************************************************************************)
(* Regeneration: summarize and risk-analysis requests for one document,    *)
(* repeated until the artifact tables hold MaxArtifactRows rows.           *)
(***************************************************************************)
Regenerate(document_id) ==
    \/ SummarizeWithin(MaxArtifactRows, MaxConcurrent, document_id)
    \/ RiskAnalysisWithin(MaxArtifactRows, MaxConcurrent, document_id)

InitArtifacts ==
    /\ openai_client = PrimaryClient
    /\ fallback_client = SecondaryClient
    /\ \E blank \in BOOLEAN :
          document_chunks =
              [d \in Docs |-> <<IF d = "d1" /\ blank THEN WhitespaceRow(d, 0, "vector")
                                ELSE ChunkRow(d, 0, "vector")>>]
    /\ document_summaries = <<>>
    /\ document_risk_analyses = <<>>
    /\ last = NoRequest
    /\ call = NoCall
    /\ background_tasks = <<>>
    /\ user_document_rows = Docs
    /\ InitUtilities

NextArtifacts ==
    \/ Regenerate("d1")
    \/ ProviderAnswers
    \/ Deliver

SpecArtifacts == InitArtifacts /\ [][NextArtifacts]_vars

(***************************************************************************)
(* The retriever alone: search_similar_chunks over documents of up to      *)
(* MaxSearchChunks chunks.                                                 *)
(***************************************************************************)
\* The answers of the match_documents database function to a call with the
\* given match_count on a document of n chunks: an error, or the k best rows.
MatchAnswers(n, count) ==
    {RpcError} \cup
    {RpcOk([j \in 1..k |-> j - 1]) : k \in 0..(IF n < count THEN n ELSE count)}

Search(document_id, count) ==
    /\ \E rpc \in MatchAnswers(Len(document_chunks[document_id]), count),
          chunks_read_ok \in BOOLEAN :
          /\ rpc.ok => chunks_read_ok
          /\ call' = [op |-> "search_similar_chunks", document_id |-> document_id,
                      match_count |-> count, rpc |-> rpc,
                      chunks_read_ok |-> chunks_read_ok,
                      result |-> search_similar_chunks(Tables, document_id, rpc,
                                                       chunks_read_ok)]
    /\ UNCHANGED <<in_flight, openai_client, fallback_client, document_chunks, document_summaries,
                   document_risk_analyses, last, background_tasks, user_document_rows,
                   utilities>>

InitSearch ==
    /\ openai_client = PrimaryClient
    /\ fallback_client = SecondaryClient
    /\ \E n \in 0..MaxSearchChunks :
          document_chunks =
              [d \in Docs |->
                  [i \in 1..(IF d = "d1" THEN n ELSE 1) |-> ChunkRow(d, i - 1, "vector")]]
    /\ document_summaries = <<>>
    /\ document_risk_analyses = <<>>
    /\ last = NoRequest
    /\ call = NoCall
    /\ background_tasks = <<>>
    /\ user_document_rows = Docs
    /\ InitUtilities

NextSearch ==
    \E d \in Docs, count \in {1, 3, match_count} : Search(d, count)

SpecSearch == InitSearch /\ [][NextSearch]_vars

(***************************************************************************)
(* services/embedding_service.py: EmbeddingService.                        *)
(***************************************************************************)
\* The texts embedded, and the vector a source gives for a text.
Texts == {"t1", "t2"}
Vector(source, text) == [source |-> source, text |-> text]
Vectors(source, texts) ==
    [kind |-> "return", exc |-> "", vectors |-> [i \in 1..Len(texts) |-> Vector(source, texts[i])]]
EmbeddingServiceError == [kind |-> "raise", exc |-> "EmbeddingServiceError", vectors |-> <<>>]

\* settings.huggingface_api_key: config.py declares no such field (reading it
\* raises AttributeError); a patched configuration may hold None or a key.
ApiKeys == {"no_attribute", "unset", "set"}

\* What the HTTP call to the inference API comes to: no answer, an error
\* status, a body that is not a JSON list, or a JSON list (empty, one vector
\* per text, one vector fewer, one vector more, or one error object).
ApiOutcomes == {"transport_error", "http_error", "malformed", "empty", "vectors",
                "one_fewer", "one_more", "error_list"}

\* Line 133: response.json() of an answer that is a list.
ApiList(texts, provider) ==
    IF provider = "vectors" THEN Vectors("api", texts).vectors
    ELSE IF provider = "one_fewer" THEN Vectors("api", SubSeq(texts, 1, Len(texts) - 1)).vectors
    ELSE IF provider = "one_more" THEN Append(Vectors("api", texts).vectors, Vector("api", "extra"))
    ELSE IF provider = "error_list" THEN <<Vector("NOT_A_VECTOR", "error")>>
    ELSE <<>>

\* Lines 117-143: every failure of the API path is raised as
\* EmbeddingServiceError; a non-empty list is returned as it is, whatever
\* its length and its elements (lines 134-136).
_generate_api_embeddings(texts, key, provider) ==
    IF key # "set" THEN EmbeddingServiceError
    ELSE IF provider \in {"transport_error", "http_error", "malformed"} THEN EmbeddingServiceError
    ELSE IF ApiList(texts, provider) = <<>> THEN EmbeddingServiceError
    ELSE [kind |-> "return", exc |-> "", vectors |-> ApiList(texts, provider)]

\* Lines 82-115: the local model; when it raises the API path is taken.
_generate_legal_bert_embeddings(texts, local_ok, key, provider) ==
    IF local_ok THEN Vectors("legal_bert", texts)
    ELSE _generate_api_embeddings(texts, key, provider)

\* Lines 58-80: the local model when it is loaded, else the API path; an
\* exception of either is raised as EmbeddingServiceError.
generate_embeddings(loaded, texts, local_ok, key, provider) ==
    IF loaded
    THEN _generate_legal_bert_embeddings(texts, local_ok, key, provider)
    ELSE _generate_api_embeddings(texts, key, provider)

\* Lines 24-56: loading the model at startup sets _model_loaded when it succeeds.
InitializeModel ==
    /\ ~model_loaded
    /\ \E success \in BOOLEAN : model_loaded' = success
    /\ call' = [op |-> "initialize_model"]
    /\ UNCHANGED <<in_flight, openai_client, fallback_client, document_chunks, document_summaries,
                   document_risk_analyses, last, background_tasks, user_document_rows,
                   requests, last_cleanup, cache, now, history>>

\* The inputs of a call are the ones it consumed.
EmbedInputs(local_ok, key, provider) ==
    /\ ~model_loaded => local_ok
    /\ (model_loaded /\ local_ok) => key = "set"
    /\ (key # "set" \/ (model_loaded /\ local_ok)) => provider = "vectors"

GenerateEmbeddings ==
    /\ \E texts \in UNION {[1..n -> Texts] : n \in 1..MaxTexts},
          local_ok \in BOOLEAN, key \in ApiKeys, provider \in ApiOutcomes :
          /\ EmbedInputs(local_ok, key, provider)
          /\ call' = [op |-> "generate_embeddings", texts |-> texts, loaded |-> model_loaded,
                      local_ok |-> local_ok, key |-> key, provider |-> provider,
                      result |-> generate_embeddings(model_loaded, texts, local_ok, key,
                                                     provider)]
    /\ UNCHANGED <<in_flight, openai_client, fallback_client, document_chunks, document_summaries,
                   document_risk_analyses, last, background_tasks, user_document_rows,
                   utilities>>

NextEmbedder ==
    \/ InitializeModel
    \/ GenerateEmbeddings

SpecEmbedder == Init /\ [][NextEmbedder]_vars

(***************************************************************************)
(* SupabaseService.delete_user_documents.                                  *)
(***************************************************************************)
Users == {user_documents[d] : d \in Docs}

\* SupabaseService.get_user_documents: the ids of the user's document rows.
get_user_documents(user_id) ==
    {d \in user_document_rows : user_documents[d] = user_id}

\* delete().in_("document_id", document_ids) on an artifact table.
DeleteIn(rows, document_ids) ==
    SelectSeq(rows, LAMBDA r : r.document_id \notin document_ids)

\* What a delete request comes to: the rows are deleted, the store answers
\* without deleting (no data; drawn for user_documents only: on a dependent
\* table it leaves the store as a raising request does), or the request raises.
DeleteOutcomes == {"deleted", "no_data", "raised"}

\* Lines 212-249: the dependents are deleted table by table, a failure of
\* one of them is logged and the next delete is made; only a failure of the
\* delete of the document rows is raised.
delete_user_documents(user_id, list_ok, outcome) ==
    LET document_ids == get_user_documents(user_id)
        unchanged == [summaries |-> document_summaries, risks |-> document_risk_analyses,
                      chunks |-> document_chunks, rows |-> user_document_rows]
    IN  IF ~list_ok
        THEN [kind |-> "raise", document_ids |-> {}, steps |-> <<"get_user_documents">>]
                 @@ unchanged
        ELSE IF document_ids = {}
        THEN [kind |-> "return", document_ids |-> {}, steps |-> <<"get_user_documents">>]
                 @@ unchanged
        ELSE [kind |-> IF outcome.user_documents = "raised" THEN "raise" ELSE "return",
              document_ids |-> document_ids,
              steps |-> <<"get_user_documents", "document_summaries",
                          "document_risk_analyses", "document_chunks", "user_documents">>,
              summaries |-> IF outcome.document_summaries = "deleted"
                            THEN DeleteIn(document_summaries, document_ids)
                            ELSE document_summaries,
              risks |-> IF outcome.document_risk_analyses = "deleted"
                        THEN DeleteIn(document_risk_analyses, document_ids)
                        ELSE document_risk_analyses,
              chunks |-> IF outcome.document_chunks = "deleted"
                         THEN [d \in Docs |-> IF d \in document_ids THEN <<>>
                                              ELSE document_chunks[d]]
                         ELSE document_chunks,
              rows |-> IF outcome.user_documents = "deleted"
                       THEN user_document_rows \ document_ids
                       ELSE user_document_rows]

AllDeleted ==
    [document_summaries |-> "deleted", document_risk_analyses |-> "deleted",
     document_chunks |-> "deleted", user_documents |-> "deleted"]

DeleteUserDocuments(user_id) ==
    \E list_ok \in BOOLEAN :
    \E outcome \in IF ~list_ok \/ get_user_documents(user_id) = {} THEN {AllDeleted}
                   ELSE {o \in [{"document_summaries", "document_risk_analyses",
                                 "document_chunks", "user_documents"} -> DeleteOutcomes] :
                            \A t \in DOMAIN o : o[t] = "no_data" => t = "user_documents"} :
       /\ LET result == delete_user_documents(user_id, list_ok, outcome)
          IN  /\ document_summaries' = result.summaries
              /\ document_risk_analyses' = result.risks
              /\ document_chunks' = result.chunks
              /\ user_document_rows' = result.rows
              /\ call' = [op |-> "delete_user_documents", user_id |-> user_id,
                          outcome |-> outcome, kind |-> result.kind,
                          document_ids |-> result.document_ids, steps |-> result.steps]
       /\ UNCHANGED <<in_flight, openai_client, fallback_client, last, background_tasks, utilities>>

\* A store in which every artifact row belongs to a document row.
InitDelete ==
    /\ openai_client = PrimaryClient
    /\ fallback_client = SecondaryClient
    /\ user_document_rows \in SUBSET Docs
    /\ \E n \in 0..MaxChunks :
          document_chunks =
              [d \in Docs |-> IF d \in user_document_rows
                              THEN [i \in 1..n |-> ChunkRow(d, i - 1, "vector")]
                              ELSE <<>>]
    /\ \E s \in BOOLEAN :
          document_summaries =
              IF s /\ "d1" \in user_document_rows
              THEN <<Row("document_summaries", "d1", "llm_content")>> ELSE <<>>
    /\ \E r \in BOOLEAN :
          document_risk_analyses =
              IF r /\ "d1" \in user_document_rows
              THEN <<Row("document_risk_analyses", "d1", "llm_content")>> ELSE <<>>
    /\ last = NoRequest
    /\ call = NoCall
    /\ background_tasks = <<>>
    /\ InitUtilities

NextDelete == \E user_id \in Users : DeleteUserDocuments(user_id)

SpecDelete == InitDelete /\ [][NextDelete]_vars

\* Deletion while the documents of the caller are summarized: a delete finds
\* the server with summarize requests suspended at the provider call.
NextLifecycle ==
    \/ \E d \in OwnDocs : Summarize(d)
    \/ DeleteUserDocuments(CurrentUser)
    \/ ProviderAnswers
    \/ Deliver

SpecLifecycle == InitArtifacts /\ [][NextLifecycle]_vars

(***************************************************************************)
(* The clock.  time.time() does not decrease; the model takes the seconds   *)
(* 0..MaxEarly after construction and the seconds that follow the cleanup   *)
(* interval of the rate limiter.                                            *)
(***************************************************************************)
cleanup_interval == 60

Times == (0..MaxEarly) \cup {cleanup_interval + 1 + k : k \in 0..MaxEarly}

TickWithin(times) ==
    /\ \E t \in times : t > now /\ now' = t
    /\ UNCHANGED <<in_flight, openai_client, fallback_client, document_chunks, document_summaries,
                   document_risk_analyses, last, call, background_tasks,
                   user_document_rows, model_loaded, requests, last_cleanup, cache,
                   history>>

Tick == TickWithin(Times)

(***************************************************************************)
(* middleware/rate_limiter.py: RateLimiter.                                *)
(***************************************************************************)
ClientIds == {"c1", "c2"}

RECURSIVE Popleft(_, _)
\* while client_requests and client_requests[0] < cutoff_time: popleft()
Popleft(client_requests, cutoff_time) ==
    IF client_requests # <<>> /\ Head(client_requests) < cutoff_time
    THEN Popleft(Tail(client_requests), cutoff_time)
    ELSE client_requests

\* Lines 56-66: every deque is trimmed and the empty ones are removed.
_cleanup_old_entries(reqs, current_time, window) ==
    [c \in {k \in DOMAIN reqs : Popleft(reqs[k], current_time - window) # <<>>} |->
        Popleft(reqs[c], current_time - window)]

\* self.requests[client_id] of the defaultdict: a missing key is created.
Lookup(reqs, client_id) ==
    IF client_id \in DOMAIN reqs THEN reqs[client_id] ELSE <<>>

\* The deque of the client replaced in the dict.
Store(reqs, client_id, client_requests) ==
    [c \in DOMAIN reqs \cup {client_id} |->
        IF c = client_id THEN client_requests ELSE reqs[c]]

\* A faulty limiter: a rejected request is recorded too.
AdmitRecordingRejected(reqs, client_id, client_requests, limit, current_time) ==
    [allowed |-> Len(client_requests) < limit,
     requests |-> Store(reqs, client_id, Append(client_requests, current_time))]

\* Lines 48-54: under the limit the request is recorded and admitted.
Admit(reqs, client_id, client_requests, limit, current_time) ==
    IF Len(client_requests) >= limit
    THEN [allowed |-> FALSE, requests |-> Store(reqs, client_id, client_requests)]
    ELSE [allowed |-> TRUE,
          requests |-> Store(reqs, client_id, Append(client_requests, current_time))]

\* Lines 35-38: the periodic cleanup.
CleanedUp(reqs, cleanup, current_time, window) ==
    IF current_time - cleanup > cleanup_interval
    THEN _cleanup_old_entries(reqs, current_time, window)
    ELSE reqs

\* Lines 21-54.
is_allowed(reqs, cleanup, client_id, limit, window, current_time) ==
    Admit(CleanedUp(reqs, cleanup, current_time, window), client_id,
          Popleft(Lookup(CleanedUp(reqs, cleanup, current_time, window), client_id),
                  current_time - window),
          limit, current_time)

IsAllowed(client_id) ==
    /\ Len(history) < MaxCalls
    /\ LET answer == is_allowed(requests, last_cleanup, client_id, Limit, Window, now)
       IN  /\ requests' = answer.requests
           /\ history' = Append(history, [op |-> "is_allowed", client_id |-> client_id,
                                          time |-> now, result |-> answer.allowed])
    /\ last_cleanup' = IF now - last_cleanup > cleanup_interval THEN now ELSE last_cleanup
    /\ UNCHANGED <<in_flight, openai_client, fallback_client, document_chunks, document_summaries,
                   document_risk_analyses, last, call, background_tasks,
                   user_document_rows, model_loaded, cache, now>>

NextLimiter ==
    \/ Tick
    \/ \E client_id \in ClientIds : IsAllowed(client_id)

SpecLimiter == InitIngest /\ [][NextLimiter]_vars

(***************************************************************************)
(* utils/cache.py: SimpleCache.                                            *)
(***************************************************************************)
Keys == {"k1", "k2"}
CacheValues == {"v1", "v2"}
default_ttl == 300

\* The ttl argument of set: not given (None), or a number of seconds.
DefaultTtl == [given |-> FALSE, seconds |-> 0]
Ttl(seconds) == [given |-> TRUE, seconds |-> seconds]

\* A faulty test: an entry is expired from its expiry time on.
ExpiredAtExpiry(entry, current_time) ==
    current_time >= entry.expires_at

\* Lines 27 and 57: time.time() > entry['expires_at'].
Expired(entry, current_time) ==
    current_time > entry.expires_at

\* del self.cache[key]
Without(entries, key) ==
    [k \in DOMAIN entries \ {key} |-> entries[k]]

\* Lines 21-31.
cache_get(entries, key, current_time) ==
    IF key \notin DOMAIN entries THEN [value |-> None, cache |-> entries]
    ELSE IF Expired(entries[key], current_time)
    THEN [value |-> None, cache |-> Without(entries, key)]
    ELSE [value |-> entries[key].value, cache |-> entries]

\* Lines 33-41.
cache_set(entries, key, value, ttl, current_time) ==
    [k \in DOMAIN entries \cup {key} |->
        IF k = key
        THEN [value |-> value,
              expires_at |-> current_time + (IF ttl.given THEN ttl.seconds ELSE default_ttl)]
        ELSE entries[k]]

\* Lines 43-46.
cache_delete(entries, key) ==
    IF key \in DOMAIN entries THEN Without(entries, key) ELSE entries

\* Lines 52-60.
cleanup_expired(entries, current_time) ==
    [k \in {e \in DOMAIN entries : ~Expired(entries[e], current_time)} |-> entries[k]]

\* The utilities a cache call leaves alone, with the request pipeline.
CacheFrame ==
    UNCHANGED <<in_flight, openai_client, fallback_client, document_chunks, document_summaries,
                document_risk_analyses, last, background_tasks, user_document_rows,
                model_loaded, requests, last_cleanup, now>>

CacheGet(key) ==
    /\ cache' = cache_get(cache, key, now).cache
    /\ call' = [op |-> "cache.get", key |-> key, time |-> now,
                result |-> cache_get(cache, key, now).value]
    /\ UNCHANGED history
    /\ CacheFrame

CacheSet(key, value, ttl) ==
    /\ Len(history) < MaxCacheCalls
    /\ cache' = cache_set(cache, key, value, ttl, now)
    /\ call' = [op |-> "cache.set", key |-> key, time |-> now, result |-> None]
    /\ history' = Append(history, [op |-> "cache.set", key |-> key, value |-> value,
                                   ttl |-> ttl, time |-> now])
    /\ CacheFrame

CacheDelete(key) ==
    /\ Len(history) < MaxCacheCalls
    /\ cache' = cache_delete(cache, key)
    /\ call' = [op |-> "cache.delete", key |-> key, time |-> now, result |-> None]
    /\ history' = Append(history, [op |-> "cache.delete", key |-> key, value |-> None,
                                   ttl |-> DefaultTtl, time |-> now])
    /\ CacheFrame

\* Lines 48-50.
CacheClear ==
    /\ Len(history) < MaxCacheCalls
    /\ cache' = <<>>
    /\ call' = [op |-> "cache.clear", key |-> None, time |-> now, result |-> None]
    /\ history' = Append(history, [op |-> "cache.clear", key |-> None, value |-> None,
                                   ttl |-> DefaultTtl, time |-> now])
    /\ CacheFrame

\* cleanup_cache_periodically: the sweep, whenever it wakes up.
CleanupExpired ==
    /\ cache' = cleanup_expired(cache, now)
    /\ call' = [op |-> "cache.cleanup_expired", key |-> None, time |-> now,
                result |-> None]
    /\ UNCHANGED history
    /\ CacheFrame

NextCache ==
    \/ TickWithin(0..MaxEarly)
    \/ \E key \in Keys : CacheGet(key)
    \/ \E key \in Keys, value \in CacheValues, ttl \in {DefaultTtl, Ttl(ShortTtl)} :
          CacheSet(key, value, ttl)
    \/ \E key \in Keys : CacheDelete(key)
    \/ CacheClear
    \/ CleanupExpired

SpecCache == InitIngest /\ [][NextCache]_vars

(***************************************************************************)
(* Properties.  They speak of the request handled last: its invocations of *)
(* the completion client, the provider calls of each, the rows inserted    *)
(* and the response sent.                                                  *)
(***************************************************************************)
Invs == {last.invocations[i] : i \in 1..Len(last.invocations)}

\* The chunk rows of a document as the last request found them when it arrived.
ChunksFound(d) == last.db[1].document_chunks[d]

Responses(inv) == {inv.calls[k].response : k \in 1..Len(inv.calls)}

BothConfigured(inv) == inv.self.openai_client # None /\ inv.self.fallback_client # None

\* A completion that carries text in its content field.
HasContent(resp) == resp.kind = "completion" /\ resp.choices > 0 /\ resp.content # ""

\* A completion without text in its content field, or without choices.
EmptyContent(resp) == resp.kind = "completion" /\ ~HasContent(resp)

\* The canned artifact of the summarize / risk-analysis use-case, and its table.
UseCaseFallbacks(endpoint) ==
    IF endpoint = "summarize" THEN {FallbackSummary}
    ELSE {FallbackRiskService, FallbackRiskEndpoint}

TableOf(endpoint) ==
    IF endpoint = "summarize" THEN "document_summaries" ELSE "document_risk_analyses"

\* C1: summarize and risk-analysis on a document with chunks, when both
\* credentials fail with an authentication or rate-limit error, answer
\* success=true with the use-case's canned artifact (summary skeleton, risk
\* HTML), and that very string is the row inserted.
C1_BothFail_UseCaseArtifactInserted ==
    (/\ last.endpoint \in {"summarize", "risk-analysis"}
     /\ last.env.insert_ok
     /\ \E inv \in Invs :
           /\ Len(inv.calls) = 2
           /\ \A r \in Responses(inv) : AuthOrRateLimit(r))
    => /\ last.response.success
       /\ last.response.content \in UseCaseFallbacks(last.endpoint)
       /\ last.inserted =
              <<Row(TableOf(last.endpoint), last.document_id, last.response.content)>>

\* C2: with both credentials configured, an authentication or rate-limit
\* failure of the primary call is followed by exactly one call of the
\* secondary with the same request, and a secondary answer with content is
\* the value returned.
C2_PrimaryAuthFailure_SameRequestToSecondary ==
    \A inv \in Invs :
        (/\ BothConfigured(inv)
         /\ inv.calls # <<>>
         /\ inv.calls[1].client = inv.self.openai_client
         /\ AuthOrRateLimit(inv.calls[1].response))
        => /\ Len(inv.calls) = 2
           /\ inv.calls[2].client = inv.self.fallback_client
           /\ inv.calls[1].request = inv.request
           /\ inv.calls[2].request = inv.calls[1].request
           /\ HasContent(inv.calls[2].response)
                 => /\ inv.outcome = "return"
                    /\ inv.value = inv.calls[2].response.content

C2_SecondaryAnswered ==
    \E inv \in Invs :
        /\ BothConfigured(inv)
        /\ Len(inv.calls) = 2
        /\ inv.calls[1].response.kind = "AuthenticationError"
        /\ inv.calls[2].client = SecondaryClient
        /\ HasContent(inv.calls[2].response)
        /\ inv.value = "llm_content"

\* C3: with no credential configured chat_completion raises AIServiceError
\* at once, with no provider call and no canned text; with only the
\* secondary configured the first and only attempt uses the secondary.
C3_NoCredentialRaises_OnlySecondaryUsed ==
    \A inv \in Invs :
        /\ (inv.self.openai_client = None /\ inv.self.fallback_client = None)
              => /\ inv.outcome = "raise"
                 /\ inv.error = "OpenAI client not initialized"
                 /\ inv.calls = <<>>
        /\ (inv.self.openai_client = None /\ inv.self.fallback_client # None)
              => /\ Len(inv.calls) = 1
                 /\ inv.calls[1].client = inv.self.fallback_client

C3_NoCredentialRaised ==
    \E inv \in Invs :
        /\ inv.self.openai_client = None
        /\ inv.self.fallback_client = None
        /\ inv.outcome = "raise"
        /\ inv.calls = <<>>

\* C4: when every credential tried fails with an authentication or
\* rate-limit error the call does not raise, and returns the canned response
\* of the calling use-case (chat, summary, risk_analysis, generic otherwise).
C4_AllTriedFail_CannedOfUseCase ==
    \A inv \in Invs :
        (inv.calls # <<>> /\ \A r \in Responses(inv) : AuthOrRateLimit(r))
        => /\ inv.outcome = "return"
           /\ inv.value = _get_fallback_response(inv.useCase)

\* C5: a provider call, with the primary or the secondary credential, that
\* fails with an error other than authentication and rate limit makes
\* chat_completion raise; no canned text is returned.
C5_OtherErrorRaises ==
    \A inv \in Invs :
        (\E r \in Responses(inv) : r.kind = "APIConnectionError")
        => inv.outcome = "raise"

\* The credentials configured when the invocation was made.
Configured(inv) == {inv.self.openai_client, inv.self.fallback_client} \ {None}

\* The credentials the invocation called.
Attempted(inv) == {inv.calls[k].client : k \in 1..Len(inv.calls)}

\* C6 (as stated): chat_completion raises only after every configured
\* credential has been attempted.
C6_RaisesOnlyAfterAllAttempted ==
    \A inv \in Invs :
        inv.outcome = "raise" => Configured(inv) \subseteq Attempted(inv)

\* C6 (amended): chat_completion raises only when no credential is
\* configured, or after exactly one provider call, made with the first
\* credential of the chain, that ended otherwise than in an authentication
\* or rate-limit error; it never raises after such an error.
C6_RaisesOnlyOnFirstAttempt ==
    \A inv \in Invs :
        inv.outcome = "raise"
        => \/ Configured(inv) = {} /\ inv.calls = <<>>
           \/ /\ Len(inv.calls) = 1
              /\ inv.calls[1].client = SelectClient(inv.self)
              /\ ~AuthOrRateLimit(inv.calls[1].response)

C6_RaisedWithSecondaryUntried ==
    \E inv \in Invs :
        /\ BothConfigured(inv)
        /\ inv.outcome = "raise"
        /\ Len(inv.calls) = 1
        /\ inv.calls[1].response.kind = "APIConnectionError"
        /\ SecondaryClient \notin Attempted(inv)

\* C7: a completion with empty content, from either credential, ends in the
\* reasoning text when the response has a non-empty reasoning field, and in
\* a raised empty-response failure otherwise (no choices included): neither
\* an empty string nor canned text is returned.
C7_EmptyContent_ReasoningOrRaise ==
    \A inv \in Invs :
        \A r \in Responses(inv) :
            EmptyContent(r)
            => IF r.choices > 0 /\ r.hasReasoning /\ r.reasoning # ""
               THEN inv.outcome = "return" /\ inv.value = r.reasoning
               ELSE inv.outcome = "raise"

\* C8: an invocation makes at most two provider calls, never two with the
\* same credential, calls the secondary only when the primary is not
\* configured or has just failed with an authentication or rate-limit error,
\* starts with the primary when it is configured, and leaves the client
\* fields as they were.
C8_CallChain ==
    \A inv \in Invs :
        /\ Len(inv.calls) <= 2
        /\ Len(inv.calls) = 2 => inv.calls[1].client # inv.calls[2].client
        /\ \A k \in 1..Len(inv.calls) :
              inv.calls[k].client = inv.self.fallback_client
              => \/ k = 1 /\ inv.self.openai_client = None
                 \/ /\ k = 2
                    /\ inv.calls[1].client = inv.self.openai_client
                    /\ AuthOrRateLimit(inv.calls[1].response)
        /\ (inv.calls # <<>> /\ openai_client # None)
              => inv.calls[1].client = openai_client
        /\ Configured(inv) # {} => inv.calls # <<>>
        /\ inv.self = Self

C8_BoundedChainFromPrimary ==
    /\ []C8_CallChain
    /\ [][openai_client' = openai_client /\ fallback_client' = fallback_client]_vars

C8_TwoCallsMade ==
    \E inv \in Invs :
        /\ Len(inv.calls) = 2
        /\ inv.calls[1].client = PrimaryClient
        /\ inv.calls[2].client = SecondaryClient
        /\ inv.calls[2].response.kind = "RateLimitError"

\* The store answered every read the last request made of it.
ReadsSucceed(env) ==
    /\ env.doc_read_ok
    /\ \A k \in 1..Len(env.chunk_reads) : env.chunk_reads[k]

\* The last read of the chunks that the last request made was answered.
LastReadSucceeds(env) ==
    env.chunk_reads # <<>> => env.chunk_reads[Len(env.chunk_reads)]

\* C9: summarize and risk-analysis on a document without chunks answer with
\* HTTP 404, make no completion call and insert no row.
C9_ZeroChunks_NotFound ==
    (/\ last.endpoint \in {"summarize", "risk-analysis"}
     /\ last.env.token_ok
     /\ ReadsSucceed(last.env)
     /\ ChunksFound(last.document_id) = <<>>)
    => /\ last.response.status = 404
       /\ last.invocations = <<>>
       /\ last.inserted = <<>>

\* C10 as stated: summarize, risk-analysis, chat and query, with a valid
\* token, a document with at least one chunk and a store whose reads and
\* inserts succeed, answer success=true with non-empty content whatever the
\* provider calls come to and whatever credentials are configured.
C10_AlwaysSuccessWithContent ==
    (/\ last.endpoint \in {"summarize", "risk-analysis", "chat", "query"}
     /\ last.env.token_ok
     /\ ReadsSucceed(last.env) /\ last.env.insert_ok
     /\ last.endpoint # "chat" => ChunksFound(last.document_id) # <<>>)
    => /\ last.response.status = 200
       /\ last.response.success
       /\ last.response.content # ""

\* C10 as amended: the same, for a query on a document of the caller and for
\* a risk-analysis on a document whose chunk texts are not all whitespace.
C10_SuccessOnOwnReadableDocument ==
    (/\ last.endpoint \in {"summarize", "risk-analysis", "chat", "query"}
     /\ last.env.token_ok
     /\ ReadsSucceed(last.env) /\ last.env.insert_ok
     /\ last.endpoint # "chat" => ChunksFound(last.document_id) # <<>>
     /\ last.endpoint = "query" => user_documents[last.document_id] = CurrentUser
     /\ last.endpoint = "risk-analysis"
            => \E k \in 1..Len(ChunksFound(last.document_id)) :
                   \E c \in 1..Len(ChunksFound(last.document_id)[k].chunk_text) :
                       ChunksFound(last.document_id)[k].chunk_text[c] \notin Whitespace)
    => /\ last.response.status = 200
       /\ last.response.success
       /\ last.response.content # ""

C10_ApologyAfterServiceError ==
    /\ last.endpoint = "query"
    /\ last.use_rag
    /\ Len(last.invocations) = 2
    /\ \A inv \in Invs : inv.outcome = "raise"
    /\ last.response.success
    /\ last.response.content = FallbackQuery

\* The context made of all chunks of the document of the last request, by
\* ascending chunk_index.
AllChunksContext(sep) ==
    [sep |-> sep,
     parts |-> [i \in 1..Len(ChunksFound(last.document_id)) |->
                   (CHOOSE r \in {ChunksFound(last.document_id)[k] :
                                     k \in 1..Len(ChunksFound(last.document_id))} :
                       r.chunk_index = i - 1).chunk_text]]

\* A query request of the owner of the document, past the ownership check,
\* on a store that answers every read.
OwnQuery ==
    /\ last.endpoint = "query"
    /\ last.env.token_ok /\ ReadsSucceed(last.env)
    /\ DocumentOfUser(last.db[1], last.document_id, CurrentUser)

\* The last request is a RAG query whose similarity search raised or found
\* no row, for a document that has chunks.
SearchFailedOrEmpty ==
    /\ last.endpoint = "query" /\ last.use_rag
    /\ InSeq("match_documents", last.steps)
    /\ ~last.env.rpc.ok \/ last.env.rpc.rows = <<>>
    /\ ChunksFound(last.document_id) # <<>>

\* The completion client was called with the context made of all chunks of
\* the document by ascending chunk_index.
CalledOverAllChunks ==
    \E i \in 1..Len(last.invocations) :
        last.invocations[i].request.messages.context = AllChunksContext("\n\n")

\* C11 as stated: in a RAG query on a document with chunks, when the
\* similarity search raises or finds no row, the completion client is called
\* with the context made of all chunks by ascending chunk_index, and a
\* success answer is returned.
C11_SearchFailsOrEmpty_AllChunksAnswered ==
    SearchFailedOrEmpty
    => /\ CalledOverAllChunks
       /\ last.response.status = 200
       /\ last.response.success
       /\ last.response.content # ""

\* C11 as amended: the same when the last read of the chunks that the
\* request makes is answered (a read that raises in the RAG branch is made
\* again once, in the except branch); when every read is answered the call
\* over all chunks is the first one, in RAG mode.
C11_SearchFailsOrEmpty_AllChunksInOrder ==
    (SearchFailedOrEmpty /\ LastReadSucceeds(last.env))
    => /\ CalledOverAllChunks
       /\ ReadsSucceed(last.env)
              => last.invocations[1].request =
                     QueryRequest(AllChunksContext("\n\n"), "q", TRUE)
       /\ last.response.status = 200
       /\ last.response.success
       /\ last.response.content # ""

C11_RpcFailedAllChunksAnswered ==
    /\ OwnQuery /\ last.use_rag /\ last.env.embed_ok
    /\ ~last.env.rpc.ok
    /\ Len(ChunksFound(last.document_id)) = MaxChunks
    /\ Len(last.invocations) = 1
    /\ Len(last.invocations[1].request.messages.context.parts) = MaxChunks
    /\ last.response.content = "llm_content"
    /\ last.response.source = "rag"

\* The RAG-mode step of the last request raised: the query embedding
\* failed, the similarity search or the read of all chunks raised (a read
\* that is not the last one of the request), or the RAG-mode completion raised.
RagStepRaised ==
    /\ last.endpoint = "query" /\ last.use_rag
    /\ InSeq("generate_query_embedding", last.steps)
    /\ \/ ~last.env.embed_ok
       \/ \E k \in 1..(Len(last.env.chunk_reads) - 1) : ~last.env.chunk_reads[k]
       \/ /\ last.invocations # <<>>
          /\ last.invocations[1].request.messages.system = "rag_prompt"
          /\ last.invocations[1].outcome = "raise"

DirectInvocations ==
    {i \in 1..Len(last.invocations) :
        last.invocations[i].request.messages.system = "direct_prompt"}

\* After a RAG-mode step that raised: one further invocation, the last one,
\* in direct mode over all chunks; its answer is returned, or the apology
\* with success=true when it raises.
OneDirectRetry ==
    /\ DirectInvocations = {Len(last.invocations)}
    /\ last.invocations[Len(last.invocations)].request =
           QueryRequest(AllChunksContext("\n\n"), "q", FALSE)
    /\ last.invocations[Len(last.invocations)].outcome = "raise"
          => /\ last.response.success
             /\ last.response.content = FallbackQuery
    /\ last.invocations[Len(last.invocations)].outcome = "return"
          => /\ last.response.success
             /\ last.response.content = last.invocations[Len(last.invocations)].value

\* C12 as stated: when the RAG-mode step of a RAG query raises for any
\* reason, exactly one further invocation of the completion client is made,
\* in direct mode over all chunks; when that one raises too the apology is
\* returned with success=true.  No query request invokes the completion
\* client more than twice.
C12_RagFailure_AlwaysOneDirectRetry ==
    /\ last.endpoint = "query" => Len(last.invocations) <= 2
    /\ RagStepRaised => OneDirectRetry

\* C12 as amended: the same for a document that has chunks, when the read
\* of the chunks in the except branch is answered.
C12_RagFailure_OneDirectRetry ==
    /\ last.endpoint = "query" => Len(last.invocations) <= 2
    /\ (/\ RagStepRaised
        /\ LastReadSucceeds(last.env)
        /\ ChunksFound(last.document_id) # <<>>)
       => OneDirectRetry

C12_RetriedInDirectMode ==
    /\ OwnQuery /\ last.use_rag
    /\ Len(last.invocations) = 2
    /\ last.invocations[1].outcome = "raise"
    /\ last.invocations[2].request.messages.system = "direct_prompt"
    /\ last.invocations[2].outcome = "return"
    /\ last.response.source = "api"

\* C14: a query, RAG or direct, on a document without chunks fails with
\* NotFound (HTTP 404) and is not answered with success.
C14_QueryZeroChunks_NotFound ==
    (OwnQuery /\ ChunksFound(last.document_id) = <<>>)
    => /\ last.response.status = 404
       /\ ~last.response.success

\* C13: search_similar_chunks returns at most match_count rows, whatever
\* the store does, a failing similarity RPC included.
C13_AtMostMatchCountRows ==
    (call.op = "search_similar_chunks" /\ call.result.kind = "return")
    => Len(call.result.rows) <= call.match_count

IsPrefix(a, b) == Len(a) <= Len(b) /\ SubSeq(b, 1, Len(a)) = a

\* What a summarize / risk-analysis request inserted: at most one row, of the
\* use-case's table, holding the text the completion returned or the
\* endpoint's fallback text, which is the text of the response.
C15_OneInsertOfReturnedText ==
    last.endpoint \in {"summarize", "risk-analysis"}
    => /\ Len(last.inserted) <= 1
       /\ last.inserted # <<>>
             => /\ Len(last.invocations) = 1
                /\ last.steps[Len(last.steps)] \in
                       {"insert_document_summary", "insert_risk_analysis"}
                /\ last.inserted[1].table = TableOf(last.endpoint)
                /\ last.inserted[1].document_id = last.document_id
                /\ last.inserted[1].text =
                       IF last.invocations[1].outcome = "return"
                       THEN last.invocations[1].value
                       ELSE IF last.endpoint = "summarize" THEN FallbackSummary
                       ELSE FallbackRiskEndpoint
                /\ last.response.success
                /\ last.response.content = last.inserted[1].text

\* The artifact tables grow by the rows the request inserted, at their end.
C15_AppendOnly ==
    /\ IsPrefix(document_summaries, document_summaries')
    /\ IsPrefix(document_risk_analyses, document_risk_analyses')
    /\ Len(document_summaries') + Len(document_risk_analyses')
           <= Len(document_summaries) + Len(document_risk_analyses) + 1
    /\ Len(document_summaries') > Len(document_summaries)
           => last'.inserted = <<document_summaries'[Len(document_summaries')]>>
    /\ Len(document_risk_analyses') > Len(document_risk_analyses)
           => last'.inserted = <<document_risk_analyses'[Len(document_risk_analyses')]>>

\* C15: a summarize / risk-analysis request inserts at most one row, after
\* the completion call returned or the fallback text was chosen, with the
\* text of the response; rows already stored are neither changed nor
\* removed, a regeneration adds a row.
C15_SingleInsertAppendOnly ==
    /\ []C15_OneInsertOfReturnedText
    /\ [][C15_AppendOnly]_vars

C15_Regenerated ==
    /\ Len(document_summaries) = 2
    /\ document_summaries[1].document_id = document_summaries[2].document_id
    /\ document_summaries[1].text # document_summaries[2].text
    /\ last.inserted = <<document_summaries[2]>>
    /\ last.invocations[1].outcome = "raise"

(***************************************************************************)
(* Ingestion.                                                              *)
(***************************************************************************)
\* A process_document call whose inputs pass validation and whose chunks
\* were embedded: the batch loop ran.
ReachedBatches ==
    /\ call.op = "process_document"
    /\ call.text.kind = "content"
    /\ call.user_id # ""
    /\ call.document_id # ""
    /\ call.embed_ok

RECURSIVE SizeOf(_, _)
\* The number of rows in the batches with the given outcome.
SizeOf(batches, outcome) ==
    IF batches = <<>> THEN 0
    ELSE (IF Head(batches).outcome = outcome THEN Head(batches).size ELSE 0)
             + SizeOf(Tail(batches), outcome)

\* C16: process_document inserts the chunk rows in consecutive batches of at
\* most 50; a batch whose insert raises adds its size to the failed count,
\* nothing is raised and every later batch is still attempted, so the call
\* reports success with the counts whatever the batches did.
C16_BatchFailuresCounted_NotRaised ==
    ReachedBatches =>
        LET r == call.result
            n == call.text.n
        IN  /\ r.success
            /\ call.response.status = 200 /\ call.response.success
            /\ r.total_chunks = n
            /\ Len(r.batches) = NBatches(n)
            /\ \A k \in 1..Len(r.batches) :
                   /\ r.batches[k].size =
                          IF k < Len(r.batches) THEN batch_size
                          ELSE n - batch_size * (k - 1)
                   /\ r.batches[k].size \in 1..batch_size
                   /\ r.batches[k].outcome = call.outcomes[k]
            /\ r.failed_chunks = SizeOf(r.batches, "raised")
            /\ r.chunks_inserted = SizeOf(r.batches, "inserted")
            /\ Len(r.rows) = r.chunks_inserted
            /\ \A j \in 1..Len(r.rows) :
                   r.batches[(r.rows[j].chunk_index \div batch_size) + 1].outcome = "inserted"

\* A batch raised, the next one was inserted, the last one raised again.
C16_RaisedBatchThenInserted ==
    /\ ReachedBatches
    /\ Len(call.result.batches) = 3
    /\ call.result.batches[1].outcome = "raised"
    /\ call.result.batches[2].outcome = "inserted"
    /\ call.result.batches[3].outcome = "raised"
    /\ call.result.success
    /\ call.result.failed_chunks = call.text.n - batch_size
    /\ call.result.chunks_inserted = batch_size

\* C17: a process-document request with empty or whitespace-only text ends
\* with the outcome of a ValidationError (status 400, or the framework's
\* 422), the chunker and the embedder are not called and no chunk row is
\* inserted.
C17_BlankText_ValidationOutcome ==
    (call.op = "process_document" /\ call.text.kind \in {"empty", "blank"}) =>
        /\ call.response.status \in {create_http_exception("ValidationError"), 422}
        /\ ~call.result.splitter_called
        /\ ~call.result.embedder_called
        /\ call.result.rows = <<>>

\* The ordinal indices of the rows stored for a document.
Indices(rows) == {rows[k].chunk_index : k \in 1..Len(rows)}

\* C18: whatever uploads and process-document calls were made, the chunk
\* rows stored for a document have the indices 0..n-1, each once.
C18_IndicesContiguous ==
    \A d \in Docs :
        /\ Indices(document_chunks[d]) = 0..(Len(document_chunks[d]) - 1)
        /\ Cardinality(Indices(document_chunks[d])) = Len(document_chunks[d])

\* The upload of the document returned success.
UploadSucceeded(d) ==
    call.op = "upload" /\ call.document_id = d /\ call.response.success

\* Every chunk row stored for the document has an embedding.
AllEmbedded(d) ==
    \A k \in 1..Len(document_chunks[d]) : document_chunks[d][k].embedding # None

\* C19: after upload returned success, every chunk row of the document
\* eventually has a non-null embedding, whatever the embedder and the
\* per-chunk updates of the background task do.
C19_NullVectorsTransient ==
    \A d \in Docs : [](UploadSucceeded(d) => <>AllEmbedded(d))

\* Some chunk row of the document has no embedding yet.
SomeNull(d) ==
    \E k \in 1..Len(document_chunks[d]) : document_chunks[d][k].embedding = None

\* A query that went through the RAG branch is answered, and some chunk of
\* its document had a null embedding when it arrived.
RagQueryInNullWindow ==
    /\ last = NoRequest
    /\ last' # NoRequest
    /\ last'.endpoint = "query" /\ last'.use_rag
    /\ InSeq("generate_query_embedding", last'.steps)
    /\ \E k \in 1..Len(last'.db[1].document_chunks[last'.document_id]) :
           last'.db[1].document_chunks[last'.document_id][k].embedding = None

\* The answer of such a query: success, no chunk row changed; when the
\* embedding and the reads were answered, the completion is called over the
\* embedded rows the search found, or over all chunks by ascending index
\* when it found none or failed.
AnsweredInNullWindow ==
    /\ last'.response.status = 200
    /\ last'.response.success
    /\ last'.response.content # ""
    /\ document_chunks' = document_chunks
    /\ (last'.env.embed_ok /\ ReadsSucceed(last'.env)) =>
           /\ last'.invocations # <<>>
           /\ last'.invocations[1].request =
                  QueryRequest(
                      Context("\n\n",
                              IF last'.env.rpc.ok /\ last'.env.rpc.rows # <<>>
                              THEN SelectSeq(RpcChunks(last'.db[1], last'.document_id,
                                                       last'.env.rpc.rows),
                                             LAMBDA r : r.embedding # None)
                              ELSE SortSeq(last'.db[1].document_chunks[last'.document_id],
                                           LAMBDA a, b : a.chunk_index < b.chunk_index)),
                      "q", TRUE)

ProviderUnavailable ==
    /\ call.op = "generate_embeddings"
    /\ ~(call.loaded /\ call.local_ok)
    /\ call.key # "set" \/ call.provider \in {"transport_error", "http_error", "malformed", "empty"}

\* C21: the embedder does not raise when the provider is unavailable: it
\* returns one vector per text, the same vector for the same text.
C21_UnavailableProviderAbsorbed ==
    ProviderUnavailable =>
        /\ call.result.kind = "return"
        /\ Len(call.result.vectors) = Len(call.texts)
        /\ \A i, j \in 1..Len(call.result.vectors) :
               call.texts[i] = call.texts[j] => call.result.vectors[i] = call.result.vectors[j]

(***************************************************************************)
(* Deletion.                                                               *)
(***************************************************************************)
\* The rows of the artifact tables that reference the document.
Dependents(d) ==
    Len(document_chunks[d])
        + Len(SelectSeq(document_summaries, LAMBDA r : r.document_id = d))
        + Len(SelectSeq(document_risk_analyses, LAMBDA r : r.document_id = d))

\* C22: when delete_user_documents returns without raising for a user who
\* has documents, no chunk, summary or risk-analysis row of a deleted
\* document remains, and the dependents were deleted before the documents.
C22_CascadeDelete ==
    (call.op = "delete_user_documents" /\ call.kind = "return" /\ call.document_ids # {})
    => /\ \A d \in call.document_ids \ user_document_rows : Dependents(d) = 0
       /\ call.steps = <<"get_user_documents", "document_summaries",
                         "document_risk_analyses", "document_chunks", "user_documents">>

(***************************************************************************)
(* The rate limiter.                                                       *)
(***************************************************************************)
\* The requests of the client admitted before call i with a timestamp in the
\* window that ends at time t.
AdmittedInWindow(i, client_id, t) ==
    {j \in 1..(i - 1) :
        /\ history[j].client_id = client_id
        /\ history[j].result
        /\ history[j].time >= t - Window}

\* C23: is_allowed answers True exactly when fewer than limit requests of the
\* same client admitted before have a timestamp >= now - window; rejected
\* requests and the requests of other clients do not count; so no client has
\* more than limit admitted requests within a window.
C23_SlidingWindow ==
    \A i \in 1..Len(history) :
        /\ history[i].result <=>
               Cardinality(AdmittedInWindow(i, history[i].client_id, history[i].time)) < Limit
        /\ history[i].result =>
               Cardinality(AdmittedInWindow(i + 1, history[i].client_id, history[i].time))
                   <= Limit

\* A client was rejected at its limit while the other one was admitted, and
\* was admitted again once the window had passed and the cleanup had run.
C23_RejectedThenAdmittedAfterWindow ==
    /\ Len(history) = MaxCalls
    /\ \E i, j, k \in 1..Len(history) :
          /\ i < j /\ j < k
          /\ history[i].client_id = "c1" /\ ~history[i].result
          /\ history[j].client_id = "c2" /\ history[j].result
          /\ history[j].time = history[i].time
          /\ history[k].client_id = "c1" /\ history[k].result
          /\ history[k].time > cleanup_interval
    /\ last_cleanup > 0

(***************************************************************************)
(* The cache.                                                              *)
(***************************************************************************)
\* The calls so far that set the key or removed it.
Touching(key) ==
    {j \in 1..Len(history) :
        history[j].op = "cache.clear" \/
        (history[j].op \in {"cache.set", "cache.delete"} /\ history[j].key = key)}

\* The most recent of them.
MostRecent(key) ==
    CHOOSE j \in Touching(key) : \A i \in Touching(key) : i <= j

\* What get(key) has to return at the given time: the value of the most
\* recent set when it was not deleted or cleared since and is not past its
\* expiry, None otherwise.
ExpectedValue(key, time) ==
    IF Touching(key) = {} THEN None
    ELSE IF history[MostRecent(key)].op # "cache.set" THEN None
    ELSE IF time > history[MostRecent(key)].time
                      + (IF history[MostRecent(key)].ttl.given
                         THEN history[MostRecent(key)].ttl.seconds
                         ELSE default_ttl)
    THEN None
    ELSE history[MostRecent(key)].value

\* A get returns the expected value, removes the entry it found expired and
\* leaves every other entry alone.
GetAnswersMostRecentSet ==
    (call' # call /\ call'.op = "cache.get") =>
        /\ call'.result = ExpectedValue(call'.key, now)
        /\ call'.result = None => call'.key \notin DOMAIN cache'
        /\ \A k \in DOMAIN cache \ {call'.key} : k \in DOMAIN cache' /\ cache'[k] = cache[k]
        /\ call'.key \in DOMAIN cache' => cache'[call'.key] = cache[call'.key]

\* The sweep removes the entries past their expiry and no other, and changes none.
CleanupRemovesExactlyExpired ==
    (call' # call /\ call'.op = "cache.cleanup_expired") =>
        /\ DOMAIN cache' = {k \in DOMAIN cache : ~(now > cache[k].expires_at)}
        /\ \A k \in DOMAIN cache' : cache'[k] = cache[k]

\* C24: with a non-decreasing clock, get(k) returns the value of the most
\* recent set(k) that was not deleted or cleared and is not past its expiry,
\* None otherwise; a get that finds an expired entry removes it; the sweep
\* removes exactly the expired entries and leaves the others unchanged.
C24_TtlCache ==
    [][GetAnswersMostRecentSet /\ CleanupRemovesExactlyExpired]_vars

\* A key was set twice; a get at the expiry time of the second set returned
\* its value, and the other key, set for the default time, is still cached.
C24_ReadAtExpiry ==
    /\ Len(history) = MaxCacheCalls
    /\ history[1].op = "cache.set" /\ history[1].key = "k1" /\ history[1].value = "v1"
    /\ history[2].op = "cache.set" /\ history[2].key = "k1" /\ history[2].value = "v2"
    /\ history[2].ttl = Ttl(ShortTtl)
    /\ history[3].op = "cache.set" /\ history[3].key = "k2" /\ history[3].ttl = DefaultTtl
    /\ call.op = "cache.get" /\ call.key = "k1"
    /\ call.time = history[2].time + ShortTtl
    /\ call.result = "v2"
    /\ "k2" \in DOMAIN cache

(***************************************************************************)
(* The deadline of process-document.                                       *)
(***************************************************************************)
\* C25: a process-document request that exceeds its deadline fails with the
\* timeout status 504, which is not the status 500 of a provider or
\* processing failure, and never with success.
C25_TimeoutDistinctFromFailure ==
    (call.op = "process_document" /\ call.wait # InTime) =>
        /\ call.response.status = 504
        /\ call.response.status # 500
        /\ ~call.response.success

(***************************************************************************)
(* Ownership.                                                              *)
(***************************************************************************)
\* C26: a query for a document that is not a document of the authenticated
\* user ends with an error status, never with success; no chunk of the
\* document is read, no query embedding is generated and no completion call
\* is made.
C26_ForeignDocument_NothingRead ==
    (/\ last.endpoint = "query"
     /\ last.env.token_ok
     /\ ~DocumentOfUser(last.db[1], last.document_id, CurrentUser))
    => /\ last.response.status >= 400
       /\ ~last.response.success
       /\ last.response.content = ""
       /\ last.invocations = <<>>
       /\ ~InSeq("get_document_chunks", last.steps)
       /\ ~InSeq("match_documents", last.steps)
       /\ ~InSeq("generate_query_embedding", last.steps)

\* A RAG query for the other user's document, which has chunks, was refused
\* after the ownership lookup.
C26_ForeignRagQueryRefused ==
    /\ last.endpoint = "query" /\ last.use_rag
    /\ last.env.token_ok /\ last.env.doc_read_ok
    /\ last.document_id = "d2"
    /\ document_chunks["d2"] # <<>>
    /\ last.steps = <<"user_documents.select">>
    /\ last.response.status = 401

(***************************************************************************)
(* The counts of process_document.                                         *)
(***************************************************************************)
\* Every batch insert of the last call raised or returned its rows.
StoreAnswersWhole ==
    \A k \in 1..Len(call.outcomes) : call.outcomes[k] \in {"inserted", "raised"}

\* C27: when process_document reports success and every batch insert raised
\* or returned one row per chunk, chunks_inserted + failed_chunks is at most
\* total_chunks, and equals it when the embedder returned one vector per chunk.
C27_CountsAddUp ==
    (/\ call.op = "process_document"
     /\ call.result.success
     /\ StoreAnswersWhole)
    => /\ call.result.chunks_inserted + call.result.failed_chunks
              <= call.result.total_chunks
       /\ call.vectors = call.text.n =>
              call.result.chunks_inserted + call.result.failed_chunks
                  = call.result.total_chunks

\* Two batches, one raised and one inserted, add up to the total.
C27_MixedBatchesAddUp ==
    /\ call.op = "process_document" /\ call.result.success
    /\ call.vectors = call.text.n
    /\ call.outcomes = <<"raised", "inserted">>
    /\ call.result.failed_chunks = batch_size
    /\ call.result.chunks_inserted = call.text.n - batch_size
    /\ call.result.total_chunks = call.text.n


\* With a vector missing, the counts stay below the total.
VectorMissingCountsBelowTotal ==
    /\ call.op = "process_document" /\ call.result.success
    /\ call.vectors < call.text.n
    /\ call.outcomes = <<"raised">>
    /\ call.result.chunks_inserted + call.result.failed_chunks
           < call.result.total_chunks


(***************************************************************************)
(* The effects of upload_document and of its background task.              *)
(***************************************************************************)
\* The stages of an upload, as the claim orders them.
Stage(step) ==
    CASE step = "upload_file_to_storage" -> 1
      [] step = "extract_text_from_file" -> 2
      [] step = "user_documents.insert" -> 3
      [] step = "document_chunks.insert" -> 4
      [] step = "add_task" -> 5
      [] step = "return" -> 6
      [] OTHER -> 0

\* The effects of the last upload came in the order of the stages, each
\* stage after all the stages before it were made, each once but the batch
\* inserts; the upload answered success exactly when it came to its return.
UploadStagesInOrder ==
    call.op = "upload" =>
        /\ \A i \in 1..Len(call.steps) :
               /\ Stage(call.steps[i]) > 0
               /\ (i = 1) => Stage(call.steps[i]) = 1
               /\ (i > 1) =>
                      \/ Stage(call.steps[i]) = Stage(call.steps[i - 1]) + 1
                      \/ /\ Stage(call.steps[i]) = 4
                         /\ Stage(call.steps[i - 1]) = 4
        /\ call.response.success <=> InSeq("return", call.steps)
        /\ call.response.success => call.response.status = 200

\* The batches of the last upload whose insert stored its rows.
BatchesInserted ==
    {k \in 1..Len(call.outcomes) : call.outcomes[k] = "inserted"}

\* The task of the last upload was added only when every batch insert was
\* made and none raised.
TaskOnlyAfterNoRaise ==
    (call.op = "upload" /\ InSeq("add_task", call.steps)) =>
        /\ Len(call.outcomes) = NBatches(call.text.n)
        /\ \A k \in 1..Len(call.outcomes) : call.outcomes[k] # "raised"

\* The task of the last upload was added only when every batch insert
\* succeeded: all the chunk rows of the text were inserted before.
TaskOnlyAfterAllInserted ==
    (call.op = "upload" /\ InSeq("add_task", call.steps)) =>
        /\ Len(SelectSeq(call.steps, LAMBDA x : x = "document_chunks.insert"))
               = NBatches(call.text.n)
        /\ BatchesInserted = 1..NBatches(call.text.n)

\* The upload step itself: the task is in the queue exactly when add_task
\* was made, the document row and the chunk rows are stored only by their
\* inserts, nothing else changes.
UploadEffects ==
    (call' # call /\ call'.op = "upload") =>
        /\ background_tasks' =
               IF InSeq("add_task", call'.steps)
               THEN Append(background_tasks, Task(call'.document_id, call'.text.n))
               ELSE background_tasks
        /\ call'.document_id \in user_document_rows'
               => InSeq("user_documents.insert", call'.steps)
        /\ document_chunks'[call'.document_id] # <<>>
               => InSeq("document_chunks.insert", call'.steps)
        /\ InSeq("add_task", call'.steps) /\ BatchesInserted' = 1..NBatches(call'.text.n)
               => Len(document_chunks'[call'.document_id]) = call'.text.n
        /\ document_summaries' = document_summaries
        /\ document_risk_analyses' = document_risk_analyses

\* An upload leaves its chunk rows with a null embedding.
UploadInsertsNullEmbeddings ==
    (call' # call /\ call'.op = "upload") =>
        \A k \in 1..Len(document_chunks'[call'.document_id]) :
            document_chunks'[call'.document_id][k].embedding = None

\* A step of the background task at the head of the queue.
TaskStep ==
    /\ background_tasks # <<>>
    /\ background_tasks' # background_tasks
    /\ Len(background_tasks') <= Len(background_tasks)

\* The task inserts and deletes nothing: the only row it may change is the
\* one of its document and current chunk index, by setting its embedding.
TaskOnlyUpdates ==
    TaskStep =>
        /\ user_document_rows' = user_document_rows
        /\ document_summaries' = document_summaries
        /\ document_risk_analyses' = document_risk_analyses
        /\ \A d \in Docs :
              /\ Len(document_chunks'[d]) = Len(document_chunks[d])
              /\ \A k \in 1..Len(document_chunks[d]) :
                    \/ document_chunks'[d][k] = document_chunks[d][k]
                    \/ /\ d = Head(background_tasks).document_id
                       /\ Head(background_tasks).stage = "updating"
                       /\ document_chunks[d][k].chunk_index = Head(background_tasks).i
                       /\ document_chunks'[d][k] =
                              [document_chunks[d][k] EXCEPT !.embedding = "vector"]

\* Whatever the update of one chunk did, the task goes on to the next.
TaskGoesOn ==
    (/\ TaskStep
     /\ Head(background_tasks).stage = "updating"
     /\ Head(background_tasks).i + 1 < Head(background_tasks).n)
    => Head(background_tasks') = [Head(background_tasks) EXCEPT !.i = @ + 1]

\* C28: the effects of upload come in the order storage, text, document
\* row, all chunk rows with null embedding, background task, success
\* response; the task is added only if every chunk batch insert succeeded;
\* the task only updates rows selected by (document_id, chunk_index), it
\* inserts and deletes nothing, and an update that fails does not stop the
\* updates of the following chunks.
C28_UploadEffectsInOrder ==
    /\ [](UploadStagesInOrder /\ TaskOnlyAfterAllInserted)
    /\ [][UploadEffects /\ UploadInsertsNullEmbeddings /\ TaskOnlyUpdates /\ TaskGoesOn]_vars

\* The same but for the batches whose insert returned no data: the task is
\* added only if no chunk batch insert raised.
UploadEffectsInOrderButNoData ==
    /\ [](UploadStagesInOrder /\ TaskOnlyAfterNoRaise)
    /\ [][UploadEffects /\ UploadInsertsNullEmbeddings /\ TaskOnlyUpdates /\ TaskGoesOn]_vars

\* A task of a text of two batches that ended after the update of its first
\* chunk failed and the ones of the following chunks were made.
FollowingChunksUpdatedAfterFirstFailed ==
    /\ call.op = "upload" /\ call.response.success
    /\ call.outcomes = <<"inserted", "inserted">>
    /\ background_tasks = <<>>
    /\ Len(document_chunks[call.document_id]) = batch_size + 1
    /\ document_chunks[call.document_id][1].embedding = None
    /\ \A k \in 2..(batch_size + 1) :
           document_chunks[call.document_id][k].embedding = "vector"


(***************************************************************************)
(* What a failed upload leaves in the store.                               *)
(***************************************************************************)
\* C29: when upload_document ends with an error response, no user_documents
\* row and no document_chunks row created by that upload remains.
C29_FailedUploadLeavesNothing ==
    (call.op = "upload" /\ call.response.status >= 400)
    => /\ call.document_id \notin user_document_rows
       /\ document_chunks[call.document_id] = <<>>


(***************************************************************************)
(* The values chat_completion returns.                                     *)
(***************************************************************************)
\* The texts the first choice of a completion carries.
ChoiceTexts(resp) ==
    IF resp.kind = "completion" /\ resp.choices > 0
    THEN {resp.content} \cup (IF resp.hasReasoning THEN {resp.reasoning} ELSE {})
    ELSE {}

\* C30: a value chat_completion returns is never empty: it is the content or
\* the reasoning of the first choice of the last provider response of the
\* invocation, or the canned chat text.
C30_ReturnedValueNonEmpty ==
    \A inv \in Invs :
        inv.outcome = "return"
        => /\ inv.value # ""
           /\ \/ inv.value = _get_fallback_response("chat")
              \/ /\ inv.calls # <<>>
                 /\ inv.value \in ChoiceTexts(inv.calls[Len(inv.calls)].response)

\* The secondary answered with empty content and empty reasoning after the
\* primary was refused, and the canned chat text was returned.
C30_EmptySecondaryAnswerCanned ==
    \E inv \in Invs :
        /\ inv.outcome = "return"
        /\ Len(inv.calls) = 2
        /\ inv.calls[2].response = Completion(1, "", TRUE, "")
        /\ inv.value = FallbackChat

====
